---- MODULE Spec2Model ----
(***************************************************************************)
(* Model of polyglot-llm's text Generate call: tool assembly (local tools  *)
(* plus MCP tool adapters), the tool-call orchestration loop of the six    *)
(* providers (openai_response, anthropic, bedrock, gemini, huggingface,    *)
(* ollama) and the metadata written on return.                             *)
(*                                                                         *)
(* One Generate call of one generator is modelled.  The provider, the MCP  *)
(* servers and the caller's tool handlers are the environment: every       *)
(* provider request, every adapter connect and every handler invocation    *)
(* draws its result from a small set.                                      *)
(*                                                                         *)
(* The conversation history is kept flat: one record per user input,       *)
(* assistant text, tool-call record or tool-output record.  How a provider *)
(* groups these records into wire messages is not modelled.                *)
(***************************************************************************)
EXTENDS Integers, Sequences, FiniteSets, TLC

\* ---------------------------------------------------------------- bounds
\* Rounds (counted from the first) in which the provider may answer with
\* any response of FullMenu; later rounds answer from LateMenu.
VariedRounds == 1
\* Most MCP descriptors in the generator's configuration.
MaxMCP == 2
\* Most tool-handler errors in one Generate call.
MaxHandlerErrors == 1
\* Concurrent callers of one MCP tool adapter.
NumThreads == 2
\* Most MCP clients the callers of one adapter create.
MaxConnects == 1
\* Most FetchListOfTools calls of all callers.
MaxFetches == 3
\* Most AddPromptContext and AddPromptContextProvider calls on one generator.
MaxAdds == 2
\* Longest body, in tokens, of a model output given to the structured-output
\* parser.
MaxTextLen == 3
\* Cap on the repair requests of one structured Generate call.
MaxRepairs == 2
\* Most options passed to one constructor call.
MaxOpts == 3
\* Most writes the caller makes to its own values after construction.
MaxChanges == 2
\* Most requests one Generate sends in the model of the tool options.
MaxSends == 2

\* ------------------------------------------------------- program constants
maxToolRounds == 12

Providers == {"openai", "anthropic", "bedrock", "gemini", "huggingface", "ollama"}

\* Providers that hand MCP descriptors to the vendor API instead of opening
\* MCP tool adapters themselves.
NativeMCP(p) == p \in {"openai", "anthropic"}

\* Providers whose flow sends the first request before the for loop and the
\* follow-up request at the end of the loop body.
RequestBeforeLoop(p) == p \in {"openai", "gemini"}

\* Names the caller and the MCP servers give to tools, and names the model
\* may put in a tool call ("tool.a" is "a" with a prefix some models add,
\* "z" is a name nobody registered).
CallNames == {"a", "b", "tool.a", "z"}

\* strings.TrimPrefix on tool names.
TrimPrefix(name, prefix) ==
    CASE name = "tool.a" /\ prefix = "tool." -> "a"
      [] name = "function.a" /\ prefix = "function." -> "a"
      [] name = "functions.a" /\ prefix = "functions." -> "a"
      [] OTHER -> name

\* ------------------------------------------------------------- sequences
Range(s) == {s[i] : i \in DOMAIN s}

SeqsUpTo(S, n) == UNION {[1..k -> S] : k \in 0..n}

\* Go's append(slice, item).
PrependRecord(s, item) == <<item>> \o s
AppendRecord(s, item) == Append(s, item)

\* strconv.Itoa for non-negative integers: the decimal digits, most
\* significant first.
RECURSIVE Itoa(_)
Itoa(n) == IF n < 10 THEN <<n>> ELSE Itoa(n \div 10) \o <<n % 10>>

\* strconv.Atoi on a digit string.
RECURSIVE Atoi(_)
Atoi(d) == IF Len(d) = 0 THEN 0
           ELSE 10 * Atoi(SubSeq(d, 1, Len(d) - 1)) + d[Len(d)]

\* ------------------------------------------------------------ configuration
\* A local tool of the configuration: its name and whether its Handler is
\* non-nil.
LocalToolSet == {[name |-> "a", handler |-> TRUE], [name |-> "a", handler |-> FALSE]}
MaxLocal == 2

\* AllowedTools of an MCP descriptor, already normalised to a set; the empty
\* set means that no allow-list was given.
AllowLists == {{}, {"b"}}

\* strings.TrimSpace on the contents and names in use.
TrimSpace(str) == IF str = " " THEN "" ELSE IF str = " b" THEN "b" ELSE str

\* AllowedTools as a caller may write it in an MCP descriptor.
AllowedToolsInputs == {<<>>, <<"b">>, <<" b">>, <<" ">>}

\* normalizeAllowedTools: the trimmed, non-blank names as a set; the empty
\* set stands for nil.
normalizeAllowedTools(names) == {TrimSpace(names[i]) : i \in DOMAIN names} \ {""}

\* Tool catalogues an MCP server may advertise.
ServerToolLists == {<<"b">>, <<"a", "b">>}

\* Wall-clock milliseconds a Generate call may take.
ElapsedMs == {7}

VARIABLES
    provider,       \* the provider package whose generator is used
    cfgTools,       \* cfg.Tools
    cfgMCP,         \* cfg.MCPTools (one allow-list per descriptor)
    thinking,       \* cfg.ReasoningLevel is set (gemini: config.ThinkingConfig)
    ignoreInvalid,  \* cfg.IgnoreInvalidGeneratorOptions
    thinkingSupported, \* gemini: the model accepts a thinking level
    pc,             \* position of the Generate call
    outcome,        \* "none" while running, "ok" or the error kind once returned
    meta,           \* the GenerationMetadata returned to the caller
    conns,          \* every MCP client this call created
    adapters,       \* the adapters slice of buildAllTools
    combined,       \* the combined tool list
    handlers,       \* tool name -> 0 (local handler) or adapter index
    cleanupArmed,   \* `defer cleanup()` has been registered
    history,        \* the conversation history of the flow
    calls,          \* tool calls of the response being processed
    callIdx,        \* index of the next call to process
    round,          \* the loop variable
    inLoop,         \* the flow has entered its for loop
    localToolCalls, \* anthropic/huggingface: calls handled in this round
    totals,         \* flowUsageTotals (APICalls, ToolRounds)
    handlerErrors,  \* handler errors injected so far
    cancelled,      \* whether ctx was cancelled, and the counters at that moment
    requestCount,   \* provider requests made so far
    sent,           \* history carried by the latest provider request
    response,       \* output items of the latest provider response
    invocations,    \* handler invocations so far, in order
    received,       \* provider responses received so far
    allHandled,     \* every response so far had a call with a handler
    unknownSeen,    \* some response so far had a call without handler
    \* --- one mcp.ToolAdapter shared by concurrent callers
    adapterAllowed, \* ToolAdapter.allowedTools
    adapterClient,  \* ToolAdapter.client: 0 (nil) or an index of transports
    adapterTools,   \* ToolAdapter.tools
    adapterMu,      \* ToolAdapter.mu: the writer (0: none) and the readers
    transports,     \* every MCP client the adapter's callers created
    tpc,            \* position of each caller of the adapter
    tloc,           \* locals and result of each caller's operation
    \* --- the process-wide tool-name cache of package mcp
    cachedToolsByURL,  \* URL -> backing array of the cached slice (0: absent)
    cachedToolsMutex,  \* the sync.RWMutex guarding the map
    slices,         \* the backing arrays of all []string values
    served,         \* URL -> the names the server listed when they were cached,
                    \*        and the token of the request that listed them
    fetches,        \* FetchListOfTools calls started so far
    fpc,            \* position of each caller of FetchListOfTools
    floc,           \* locals and result of each caller
    \* --- the prompt-context store of one generator
    promptContexts,          \* g.promptContexts
    promptContextProviders,  \* g.promptContextProviders
    promptContextMu,         \* g.promptContextMu
    adds,           \* AddPromptContext[Provider] calls started so far
    accepted,       \* ids of the entries whose Add call has returned
    spc,            \* position of each caller of the generator
    sloc,           \* locals and result of each caller
    \* ---- structuredGenerator.Generate of ollama, after the tool loop
    structPc,       \* position of the structured Generate call
    parsedText,     \* the text last given to extractJSONPayload
    repairRequests, \* repairStructuredJSON requests sent
    parseAttempts,  \* json.Unmarshal calls made
    structOutcome,  \* "none" while running, "ok" or the error kind once returned
    structMeta,     \* the metadata map of the structured Generate call
    flowCalls,      \* chat requests runChatFlow sent
    \* ---- option resolution and normalization (openai_response)
    optPc,          \* position: "new", "built", "normalized", "renormalized", "failed"
    opts,           \* the options the caller passes to the constructor
    genCfg,         \* g.cfg of the constructed generator
    genErr,         \* the constructor's error, "" when none
    normOut,        \* result of normalizeGeneratorOptionsForModel in Generate
    normAgain,      \* result of normalizing that result once more
    \* ---- tool options held by reference (model.WithTools, WithMCPTools)
    snapPc,         \* position: "new", "built", "flying", "returned"
    mem,            \* the slices and maps of the caller and of the config
    params,         \* the request parameters Generate built
    builtView,      \* the tools as a request at construction would show them
    requests,       \* the tools of each request sent, as marshalled
    changes         \* writes the caller made after construction

genVars == <<provider, cfgTools, cfgMCP, thinking, ignoreInvalid, thinkingSupported, pc, outcome, meta, conns,
          adapters, combined, handlers, cleanupArmed, history, calls, callIdx,
          round, inLoop, localToolCalls, totals, handlerErrors, cancelled, requestCount,
          sent, response, invocations, received, allHandled, unknownSeen>>

mcpVars == <<adapterAllowed, adapterClient, adapterTools, adapterMu, transports,
             tpc, tloc>>

cacheVars == <<cachedToolsByURL, cachedToolsMutex, slices, served, fetches, fpc, floc>>

storeVars == <<promptContexts, promptContextProviders, promptContextMu, adds,
               accepted, spc, sloc>>

\* The state outside one Generate call.
structVars == <<structPc, parsedText, repairRequests, parseAttempts, structOutcome,
                structMeta, flowCalls>>

optVars == <<optPc, opts, genCfg, genErr, normOut, normAgain>>

snapVars == <<snapPc, mem, params, builtView, requests, changes>>

sideVars == <<mcpVars, cacheVars, storeVars, structVars, optVars, snapVars>>

vars == <<genVars, sideVars>>

cfgVars == <<provider, cfgTools, cfgMCP, ignoreInvalid, thinkingSupported>>
toolVars == <<combined, handlers>>
loopVars == <<history, calls, callIdx, round, inLoop, localToolCalls, totals,
              handlerErrors, requestCount, sent, response, invocations,
              received, allHandled, unknownSeen>>
flowVars == <<loopVars, cancelled>>

\* The callers of the shared adapter.
Threads == 1..NumThreads

\* A caller that is in no operation and has run none.
NoLocals ==
    [op |-> "", c |-> 0, listed |-> <<>>, outcome |-> "", err |-> "", payload |-> <<>>]

\* A ToolAdapter value before its first Connect, with no caller at work.
AdapterFresh ==
    /\ adapterClient = 0
    /\ adapterTools = <<>>
    /\ adapterMu = [writer |-> 0, readers |-> {}]
    /\ transports = <<>>
    /\ tpc = [t \in Threads |-> "idle"]
    /\ tloc = [t \in Threads |-> NoLocals]

\* The server URLs of the cache's callers.
URLs == {"u1", "u2"}

\* A caller of FetchListOfTools that has made no call.
NoFetch ==
    [url |-> "", auth |-> "", tmp |-> 0, ret |-> 0, got |-> <<>>, err |-> "",
     hit |-> FALSE, changed |-> {}, afterChange |-> FALSE]

\* The cache of a fresh process, with no caller at work.
CacheFresh ==
    /\ cachedToolsByURL = [u \in URLs |-> 0]
    /\ cachedToolsMutex = [writer |-> 0, readers |-> {}]
    /\ slices = <<>>
    /\ served = [u \in URLs |-> [names |-> <<>>, auth |-> ""]]
    /\ fetches = 0
    /\ fpc = [t \in Threads |-> "idle"]
    /\ floc = [t \in Threads |-> NoFetch]

\* A caller of the generator that is in no operation.
NoStoreLocals ==
    [op |-> "", generator |-> "", entry |-> <<>>, contexts |-> <<>>, providers |-> <<>>,
     next |-> 1, failed |-> FALSE, items |-> <<>>, err |-> "", flowStarted |-> FALSE]

\* The prompt-context store of a new generator, with no caller at work.
StoreFresh ==
    /\ promptContexts = <<>>
    /\ promptContextProviders = <<>>
    /\ promptContextMu = [writer |-> 0, readers |-> {}]
    /\ adds = 0
    /\ accepted = {}
    /\ spc = [t \in Threads |-> "idle"]
    /\ sloc = [t \in Threads |-> NoStoreLocals]

\* No structured Generate call has started.
StructFresh ==
    /\ structPc = "flow"
    /\ parsedText = <<>>
    /\ repairRequests = 0
    /\ parseAttempts = 0
    /\ structOutcome = "none"
    /\ structMeta = <<>>
    /\ flowCalls = 0

\* A nil pointer and a pointer to value v (the optional fields of
\* GeneratorConfig).
Nil == [set |-> FALSE, v |-> ""]
Ptr(v) == [set |-> TRUE, v |-> v]

\* GeneratorConfig{}: the zero value ResolveGeneratorOpts starts from.
ZeroConfig ==
    [IgnoreInvalidGeneratorOptions |-> FALSE, Temperature |-> Nil, MaxTokens |-> Nil,
     Model |-> Nil, ReasoningLevel |-> Nil]

\* No result of a normalization yet.
NoResult == [cfg |-> ZeroConfig, err |-> ""]

\* No generator has been constructed.
OptionsFresh ==
    /\ optPc = "new"
    /\ opts = <<>>
    /\ genCfg = ZeroConfig
    /\ genErr = ""
    /\ normOut = NoResult
    /\ normAgain = NoResult

\* No generator with tools has been constructed: no slice or map exists.
SnapshotFresh ==
    /\ snapPc = "new"
    /\ mem = [callerTools |-> <<>>, cfgTools |-> <<>>, callerMCP |-> <<>>,
              cfgMCP |-> <<>>, schema |-> "", headers |-> "", allowed |-> <<>>]
    /\ params = [Tools |-> <<>>, MCP |-> <<>>]
    /\ builtView = [Tools |-> <<>>, MCP |-> <<>>]
    /\ requests = <<>>
    /\ changes = 0

\* One history record.  kind is "user", "text" (assistant text), "call"
\* (tool-call record) or "output" (tool-output record).
Item(kind, id, name, payload) ==
    [kind |-> kind, id |-> id, name |-> name, payload |-> payload]

\* The content of a record: a body and the encoding wrapped around it.
Payload(body, wrap) == [body |-> body, wrap |-> wrap]
NoPayload == Payload("", "")

\* The composed input of the generator: here only the primary prompt.
initialInputs == <<Item("user", 0, "", Payload("prompt", "text"))>>

\* ctx of the Generate call before it is cancelled.
NotCancelled == [on |-> FALSE, requests |-> 0, invocations |-> 0, received |-> 0]

\* The providers without a reasoning setting: their
\* normalizeGeneratorOptionsForProvider refuses a cfg.ReasoningLevel.
RejectsReasoning(p) == p \in {"anthropic", "huggingface"}

\* The providers whose Generate reads cfg.ReasoningLevel in the modelled part.
ReasoningAware == {"gemini", "anthropic", "huggingface"}

Init ==
    /\ provider \in Providers
    /\ cfgTools \in SeqsUpTo(LocalToolSet, MaxLocal)
    /\ cfgMCP \in SeqsUpTo(AllowLists, MaxMCP)
    /\ thinking \in (IF provider \in ReasoningAware THEN BOOLEAN ELSE {FALSE})
    /\ ignoreInvalid \in (IF thinking /\ RejectsReasoning(provider) THEN BOOLEAN ELSE {FALSE})
    /\ thinkingSupported \in (IF thinking /\ provider = "gemini" THEN BOOLEAN ELSE {TRUE})
    /\ pc = "start"
    /\ outcome = "none"
    /\ meta = <<>>
    /\ conns = <<>>
    /\ adapters = <<>>
    /\ combined = <<>>
    /\ handlers = <<>>
    /\ cleanupArmed = FALSE
    /\ history = initialInputs
    /\ calls = <<>>
    /\ callIdx = 1
    /\ round = 0
    /\ inLoop = FALSE
    /\ localToolCalls = 0
    /\ totals = [APICalls |-> 0, ToolRounds |-> 0]
    /\ handlerErrors = 0
    /\ cancelled = NotCancelled
    /\ requestCount = 0
    /\ sent = <<>>
    /\ response = <<>>
    /\ invocations = <<>>
    /\ received = 0
    /\ allHandled = TRUE
    /\ unknownSeen = FALSE
    /\ adapterAllowed = {}
    /\ AdapterFresh
    /\ CacheFresh
    /\ StoreFresh
    /\ StructFresh
    /\ OptionsFresh
    /\ SnapshotFresh

\* ----------------------------------------------------------------- metadata
initMetadata(p) == ("provider" :> p) @@ ("model" :> "default-model")

setLatencyMetadata(m, ms) == ("latency_ms" :> Itoa(ms)) @@ m

\* applyOpenAIResponseMetadata and its siblings: the totals, formatted.
applyMetadata(m, t) ==
    ("api_calls" :> Itoa(t.APICalls)) @@ ("tool_rounds" :> Itoa(t.ToolRounds)) @@ m

\* ------------------------------------------------------------- MCP adapters
\* ToolAdapter.filterAllowedTools.
filterAllowedTools(allowed, tools) ==
    IF allowed = {} THEN tools
    ELSE SelectSeq(tools, LAMBDA n : n \in allowed)

\* ToolAdapter.Disconnect applied to every adapter of the slice: a non-nil
\* client is closed, client and tools become nil.
cleanup(cs, ads) ==
    [conns |-> [k \in DOMAIN cs |->
                   IF \E i \in DOMAIN ads : ads[i].client = k
                   THEN [open |-> FALSE, closes |-> cs[k].closes + 1]
                   ELSE cs[k]],
     adapters |-> [i \in DOMAIN ads |-> [client |-> 0, tools |-> <<>>]]]

\* The cleanup() call on the error paths of buildAllTools.
leaveConnected(cs, ads) == [conns |-> cs, adapters |-> ads]
cleanupOnBuildError(cs, ads) == cleanup(cs, ads)

\* The `defer cleanup()` of Generate, run on every return after buildAllTools
\* succeeded.
skipDeferred(armed, cs, ads) == [conns |-> cs, adapters |-> ads]
deferredCleanup(armed, cs, ads) ==
    IF armed THEN cleanup(cs, ads) ELSE [conns |-> cs, adapters |-> ads]

\* Generate returns: the deferred calls run (cleanup, setLatencyMetadata).
Return(out, m, armed, cs, ads) ==
    /\ pc' = "done"
    /\ outcome' = out
    /\ \E ms \in ElapsedMs : meta' = setLatencyMetadata(m, ms)
    /\ LET c == deferredCleanup(armed, cs, ads)
       IN  /\ conns' = c.conns
           /\ adapters' = c.adapters
    /\ cleanupArmed' = armed

\* ------------------------------------------------------------ tool assembly
\* The error of mapTools / mapLocalTools on a tool list, "" when there is
\* none: tools are checked in order, a nil handler before a duplicate name.
RECURSIVE toolsError(_, _)
toolsError(tools, i) ==
    IF i > Len(tools) THEN ""
    ELSE IF ~tools[i].handler THEN "err_missing_handler"
    ELSE IF \E j \in 1..(i - 1) : tools[j].name = tools[i].name THEN "err_duplicate"
    ELSE toolsError(tools, i + 1)

\* The handlers map mapTools builds: every local tool maps to its own
\* handler, every adapter tool to its adapter.
handlersOf(tools) ==
    [n \in {tools[i].name : i \in DOMAIN tools} |->
        tools[CHOOSE i \in DOMAIN tools : tools[i].name = n /\
            \A j \in DOMAIN tools : tools[j].name = n => j <= i].src]

LocalTool(t) == [name |-> t.name, handler |-> t.handler, src |-> 0]
AdapterTool(n, k) == [name |-> n, handler |-> TRUE, src |-> k]

\* huggingface buildAllTools: handlers[modelTool.Name] = handler, for every
\* tool of adapter k, with no check for an existing entry.
overwriteHandlers(h, names, k) ==
    [n \in (DOMAIN h) \cup names |-> IF n \in names THEN k ELSE h[n]]

LocalTools == [i \in DOMAIN cfgTools |-> LocalTool(cfgTools[i])]

\* normalizeGeneratorOptionsForProvider of anthropic and huggingface: the error
\* it returns, "" when there is none.  The flag is read only when a reasoning
\* level is set.
normalizeGeneratorOptionsForProvider(p, reasoning, ignore) ==
    IF RejectsReasoning(p) /\ reasoning /\ ~ignore THEN "err_options" ELSE ""

\* The first statement of Generate in anthropic and huggingface: when the
\* options are refused it returns ("", nil, err) before initMetadata and
\* before the deferred setLatencyMetadata is registered.
RejectOptions ==
    /\ pc = "start"
    /\ UNCHANGED sideVars
    /\ normalizeGeneratorOptionsForProvider(provider, thinking, ignoreInvalid) # ""
    /\ pc' = "done"
    /\ outcome' = normalizeGeneratorOptionsForProvider(provider, thinking, ignoreInvalid)
    /\ meta' = <<>>
    /\ UNCHANGED <<cfgVars, thinking, toolVars, flowVars, conns, adapters, cleanupArmed>>

\* openai_response buildInitialParams and anthropic buildAllTools: the local
\* tools are validated and mapped; the MCP descriptors are passed to the
\* vendor API, no adapter is opened.  openai_response discovers the tool
\* names of a descriptor without allow-list, which may fail.
AssembleNative ==
    /\ pc = "start"
    /\ UNCHANGED sideVars
    /\ NativeMCP(provider)
    /\ normalizeGeneratorOptionsForProvider(provider, thinking, ignoreInvalid) = ""
    /\ LET err == toolsError(LocalTools, 1)
           armed == (provider = "anthropic")
       IN  \/ /\ err # ""
              /\ Return(err, initMetadata(provider), FALSE, conns, adapters)
              /\ UNCHANGED <<cfgVars, thinking, toolVars, flowVars>>
           \/ /\ err = ""
              /\ provider = "openai"
              /\ \E i \in DOMAIN cfgMCP : cfgMCP[i] = {}
              /\ Return("err_discover", initMetadata(provider), FALSE, conns, adapters)
              /\ UNCHANGED <<cfgVars, thinking, toolVars, flowVars>>
           \/ /\ err = ""
              /\ combined' = LocalTools
              /\ handlers' = handlersOf(LocalTools)
              /\ cleanupArmed' = armed
              /\ pc' = "request"
              /\ UNCHANGED <<cfgVars, thinking, outcome, meta, conns, adapters, flowVars>>

\* The first lines of buildAllTools of the providers that open MCP adapters:
\* huggingface validates and maps the local tools, the others copy them.
BuildLocalTools ==
    /\ pc = "start"
    /\ UNCHANGED sideVars
    /\ ~NativeMCP(provider)
    /\ normalizeGeneratorOptionsForProvider(provider, thinking, ignoreInvalid) = ""
    /\ LET err == IF provider = "huggingface" THEN toolsError(LocalTools, 1) ELSE ""
       IN  \/ /\ err # ""
              /\ Return(err, initMetadata(provider), FALSE, conns, adapters)
              /\ UNCHANGED <<cfgVars, thinking, toolVars, flowVars>>
           \/ /\ err = ""
              /\ combined' = LocalTools
              /\ handlers' = IF provider = "huggingface"
                             THEN handlersOf(LocalTools) ELSE handlers
              /\ pc' = "build"
              /\ UNCHANGED <<cfgVars, thinking, outcome, meta, conns, adapters,
                             cleanupArmed, flowVars>>

\* One iteration of the loop over cfg.MCPTools in buildAllTools:
\* mcp.NewToolAdapter (Connect) and adapter.AsModelTools.
ConnectAdapter ==
    /\ pc = "build"
    /\ UNCHANGED sideVars
    /\ Len(adapters) < Len(cfgMCP)
    /\ LET k == Len(adapters) + 1
           c == Len(conns) + 1
       IN  \/ \* Connect fails in Initialize or ListTools: the new client is
              \* closed and no adapter is returned.
              /\ LET cs == Append(conns, [open |-> FALSE, closes |-> 1])
                     cl == cleanupOnBuildError(cs, adapters)
                 IN  Return("err_connect", initMetadata(provider), FALSE,
                            cl.conns, cl.adapters)
              /\ UNCHANGED <<cfgVars, thinking, toolVars, flowVars>>
           \/ \E advertised \in ServerToolLists :
                LET tools == filterAllowedTools(cfgMCP[k], advertised)
                    cs == Append(conns, [open |-> TRUE, closes |-> 0])
                    ads == Append(adapters, [client |-> c, tools |-> tools])
                IN  \/ \* AsModelTools fails to convert a tool's schema.
                       /\ Len(tools) > 0
                       /\ LET cl == cleanupOnBuildError(cs, ads)
                          IN  Return("err_schema", initMetadata(provider), FALSE,
                                     cl.conns, cl.adapters)
                       /\ UNCHANGED <<cfgVars, thinking, toolVars, flowVars>>
                    \/ /\ conns' = cs
                       /\ adapters' = ads
                       /\ combined' = combined \o
                              [i \in DOMAIN tools |-> AdapterTool(tools[i], k)]
                       /\ handlers' = IF provider = "huggingface"
                                      THEN overwriteHandlers(handlers, Range(tools), k)
                                      ELSE handlers
                       /\ UNCHANGED <<cfgVars, thinking, pc, outcome, meta,
                                      cleanupArmed, flowVars>>

\* buildAllTools returned: Generate registers `defer cleanup()`; bedrock,
\* gemini and ollama then run mapTools on the combined list, and bedrock and
\* gemini create their API client.
FinishBuild ==
    /\ pc = "build"
    /\ UNCHANGED sideVars
    /\ Len(adapters) = Len(cfgMCP)
    /\ LET err == IF provider = "huggingface" THEN "" ELSE toolsError(combined, 1)
       IN  \/ /\ err # ""
              /\ Return(err, initMetadata(provider), TRUE, conns, adapters)
              /\ UNCHANGED <<cfgVars, thinking, toolVars, flowVars>>
           \/ /\ err = ""
              /\ provider \in {"bedrock", "gemini"}
              /\ Return("err_client", initMetadata(provider), TRUE, conns, adapters)
              /\ UNCHANGED <<cfgVars, thinking, toolVars, flowVars>>
           \/ /\ err = ""
              /\ handlers' = IF provider = "huggingface"
                             THEN handlers ELSE handlersOf(combined)
              /\ cleanupArmed' = TRUE
              /\ pc' = "request"
              /\ UNCHANGED <<cfgVars, thinking, outcome, meta, conns, adapters,
                             combined, flowVars>>

\* ------------------------------------------------------- orchestration loop
\* What a provider may answer: whether the answer has assistant text,
\* whether it reports usage (read only by gemini's accumulateGenerationTotals)
\* and the names of its tool calls, in order.
Resp(text, usage, names) == [text |-> text, usage |-> usage, names |-> names]

UsageChoices == IF provider = "gemini" THEN BOOLEAN ELSE {TRUE}

\* Tool-call name lists a response may carry in the varied rounds.
CallShapes == {<<"a">>, <<"b">>, <<"z">>, <<"tool.a">>, <<"a", "b">>,
               <<"b", "a">>, <<"a", "z">>, <<"z", "a">>}

FullMenu ==
    {Resp(t, u, <<>>) : t \in BOOLEAN, u \in UsageChoices}
    \cup {Resp(FALSE, u, n) : u \in UsageChoices, n \in CallShapes}
    \cup {Resp(TRUE, u, n) : u \in UsageChoices, n \in {<<"a">>, <<"z">>}}

LateMenu == {Resp(TRUE, TRUE, <<>>), Resp(FALSE, TRUE, <<>>),
             Resp(FALSE, TRUE, <<"a">>), Resp(FALSE, TRUE, <<"z">>)}

Menu(r) == IF r < VariedRounds THEN FullMenu ELSE LateMenu

\* Call ids are chosen by the provider and are unique within a Generate.
CallId(n, i) == 10 * n + i

\* The output items of a response: the assistant text, then the tool-call
\* records in the order the model emitted them.
OutputItems(r, n) ==
    (IF r.text THEN <<Item("text", 0, "", Payload("reply", "text"))>> ELSE <<>>)
    \o [i \in DOMAIN r.names |-> Item("call", CallId(n, i), r.names[i], NoPayload)]

IsCall(item) == item.kind = "call"
IsOutput(item) == item.kind = "output"
IsText(item) == item.kind = "text"

\* extractFunctionCalls, extractToolUses, response.FunctionCalls().
extractFunctionCalls(items) == SelectSeq(items, IsCall)

\* The loop condition `round < maxToolRounds`, negated.
RoundLimitAt13(r) == r >= maxToolRounds + 1
RoundLimitReached(r) == r >= maxToolRounds

\* accumulateFlowUsage, accumulateUsageTotals, accumulateGenerationTotals and
\* the inline totals.APICalls++ of bedrock and ollama.
accumulate(p, t, r) ==
    IF p = "gemini" /\ ~r.usage THEN t
    ELSE [t EXCEPT !.APICalls = @ + 1]

\* Providers that set totals.ToolRounds before running the handlers of a
\* round; anthropic and huggingface set it after them.
EagerToolRounds(p) == p \in {"openai", "gemini", "bedrock", "ollama"}

\* Providers that skip a tool call whose name is not in the handlers map.
SkipsUnknownCalls(p) == p \in {"anthropic", "huggingface"}

\* Providers that turn a handler error into an {"error": msg} tool output.
ErrorAsPayload(p) == p \in {"bedrock", "ollama"}

\* Lookup of a call's handler: the key of the handlers map, "" when there is
\* none.  ollama's resolveToolHandler also tries the name without the
\* prefixes "tool.", "function." and "functions.".
resolveToolHandler(p, name, h) ==
    LET hit(prefix) == /\ TrimPrefix(name, prefix) # name
                       /\ TrimPrefix(name, prefix) \in DOMAIN h
    IN  IF name \in DOMAIN h THEN name
        ELSE IF p # "ollama" THEN ""
        ELSE IF hit("tool.") THEN TrimPrefix(name, "tool.")
        ELSE IF hit("function.") THEN TrimPrefix(name, "function.")
        ELSE IF hit("functions.") THEN TrimPrefix(name, "functions.")
        ELSE ""

\* The encoding of a handler result V in the tool-output record.
encodeResult(p) ==
    CASE p = "anthropic" -> Payload("V", "json-in-json-string")
      [] p = "gemini" -> Payload("V", "output-map")
      [] p = "bedrock" -> Payload("V", "json-document")
      [] OTHER -> Payload("V", "json")

\* The tool-error payload {"error": "<message>"}.
encodeError(p) ==
    IF p = "bedrock" THEN Payload("error", "json-document") ELSE Payload("error", "json")

\* Bookkeeping on a received response: which of its calls the flow's own
\* handler lookup can resolve.
Observe(items) ==
    LET found == extractFunctionCalls(items)
        known(c) == resolveToolHandler(provider, c.name, handlers) # ""
    IN  /\ received' = received + 1
        /\ allHandled' = (allHandled /\ \E i \in DOMAIN found : known(found[i]))
        /\ unknownSeen' = (unknownSeen \/ \E i \in DOMAIN found : ~known(found[i]))

\* The flow returned a final response: Generate writes the totals into the
\* metadata and, except in openai_response, rejects an empty text.
FlowSuccess(items, t) ==
    LET m == applyMetadata(initMetadata(provider), t)
        empty == provider # "openai" /\ ~\E i \in DOMAIN items : IsText(items[i])
    IN  Return(IF empty THEN "err_empty" ELSE "ok", m, cleanupArmed, conns, adapters)

\* The flow returned an error: Generate returns the metadata of initMetadata.
FlowError(kind) ==
    Return(kind, initMetadata(provider), cleanupArmed, conns, adapters)

\* The part of a round between the provider's response and the first
\* handler: accumulate usage, append the output items, look for tool calls.
Inspect(r, n, round1) ==
    LET items == OutputItems(r, n)
        found == extractFunctionCalls(items)
        t1 == accumulate(provider, totals, r)
        final == Len(found) = 0 \/ (provider = "ollama" /\ Len(combined) = 0)
        h1 == IF provider = "gemini" \/ (provider = "ollama" /\ final)
              THEN history ELSE history \o items
    IN  /\ response' = items
        /\ Observe(items)
        /\ IF final
           THEN /\ FlowSuccess(items, t1)
                /\ totals' = t1
                /\ history' = h1
                /\ UNCHANGED <<calls, callIdx, localToolCalls>>
           ELSE /\ pc' = "exec"
                /\ calls' = found
                /\ callIdx' = 1
                /\ localToolCalls' = 0
                /\ totals' = IF EagerToolRounds(provider)
                             THEN [t1 EXCEPT !.ToolRounds = round1 + 1] ELSE t1
                /\ history' = h1
                /\ UNCHANGED <<outcome, meta, conns, adapters, cleanupArmed>>
        /\ round' = round1
        /\ inLoop' = TRUE

\* gemini: whether the config the flow goes on with carries the thinking
\* setting.  The config generateWithThinkingFallback returns is kept for the
\* request before the loop (configToUse) and dropped for the requests in it.
keepConfig(t, fallback, first) == t
configToUse(t, fallback, first) == IF fallback /\ first THEN FALSE ELSE t

\* One provider request and what the flow does with the response, up to the
\* first handler invocation.  gemini retries a request that fails because the
\* thinking level is unsupported, once, without the thinking setting.
Request ==
    /\ pc = "request"
    /\ UNCHANGED sideVars
    /\ sent' = history
    /\ UNCHANGED <<cfgVars, toolVars, handlerErrors, invocations, cancelled>>
    /\ LET fallback == /\ provider = "gemini" /\ thinking /\ ~thinkingSupported
                       /\ ~cancelled.on
       IN
         LET n == requestCount + (IF fallback THEN 2 ELSE 1)
             round1 == IF RequestBeforeLoop(provider) /\ inLoop THEN round + 1 ELSE round
         IN  /\ requestCount' = n
             /\ thinking' = configToUse(thinking, fallback, ~inLoop)
             /\ \/ \* the request (or its retry) fails
                   /\ FlowError("err_provider")
                   /\ UNCHANGED <<history, calls, callIdx, round, inLoop,
                                  localToolCalls, totals, response, received,
                                  allHandled, unknownSeen>>
                \/ /\ ~cancelled.on
                   /\ \E r \in Menu(round1) :
                     IF RequestBeforeLoop(provider) /\ RoundLimitReached(round1)
                     THEN /\ FlowError("err_limit")
                          /\ totals' = accumulate(provider, totals, r)
                          /\ response' = OutputItems(r, n)
                          /\ Observe(OutputItems(r, n))
                          /\ round' = round1
                          /\ UNCHANGED <<history, calls, callIdx, inLoop, localToolCalls>>
                     ELSE Inspect(r, n, round1)

\* The end of a round, after the last tool call was processed: anthropic and
\* huggingface return the response when no call had a handler; the flows
\* that request at the top of the loop body step the loop variable.
EndRound(h1, ltc) ==
    IF SkipsUnknownCalls(provider) /\ ltc = 0
    THEN /\ FlowSuccess(response, totals)
         /\ history' = h1
         /\ UNCHANGED <<round, totals, callIdx>>
    ELSE LET t1 == IF EagerToolRounds(provider) THEN totals
                   ELSE [totals EXCEPT !.ToolRounds = round + 1]
             round1 == IF RequestBeforeLoop(provider) THEN round ELSE round + 1
         IN  /\ totals' = t1
             /\ round' = round1
             /\ history' = h1
             /\ UNCHANGED callIdx
             /\ IF ~RequestBeforeLoop(provider) /\ RoundLimitReached(round1)
                THEN FlowError("err_limit")
                ELSE /\ pc' = "request"
                     /\ UNCHANGED <<outcome, meta, conns, adapters, cleanupArmed>>

\* After one call of the round: go on to the next call or end the round.
Advance(h1, ltc) ==
    /\ localToolCalls' = ltc
    /\ IF callIdx < Len(calls)
       THEN /\ callIdx' = callIdx + 1
            /\ history' = h1
            /\ UNCHANGED <<pc, outcome, meta, conns, adapters, cleanupArmed,
                           round, totals>>
       ELSE EndRound(h1, ltc)

\* The body of the loop over the tool calls of a response, for one call:
\* look up its handler, invoke it, record the tool output.  A handler backed
\* by an MCP adapter is ToolAdapter.ExecuteTool, which returns an error when
\* the adapter has no client.
ExecCall ==
    /\ pc = "exec"
    /\ UNCHANGED sideVars
    /\ UNCHANGED <<cfgVars, thinking, toolVars, calls, inLoop, requestCount,
                   sent, response, received, allHandled, unknownSeen, cancelled>>
    /\ LET call == calls[callIdx]
           name == resolveToolHandler(provider, call.name, handlers)
       IN  IF name = ""
           THEN /\ UNCHANGED <<handlerErrors, invocations>>
                /\ IF SkipsUnknownCalls(provider)
                   THEN Advance(history, localToolCalls)
                   ELSE /\ FlowError("err_no_handler")
                        /\ UNCHANGED <<history, callIdx, round, localToolCalls, totals>>
           ELSE LET src == handlers[name]
                    client == IF src = 0 THEN 0 ELSE adapters[src].client
                    live == src = 0 \/ (client # 0 /\ conns[client].open)
                    mayFail == IF src # 0 /\ client = 0 THEN {TRUE}
                               ELSE IF cancelled.on THEN {src = 0}
                               ELSE IF handlerErrors < MaxHandlerErrors THEN BOOLEAN
                               ELSE {FALSE}
                IN  \E callErr \in mayFail :
                      /\ invocations' = Append(invocations,
                             [id |-> call.id, name |-> name, src |-> src,
                              err |-> callErr, live |-> live])
                      /\ handlerErrors' = handlerErrors + (IF callErr THEN 1 ELSE 0)
                      /\ IF callErr /\ ~ErrorAsPayload(provider)
                         THEN /\ FlowError("err_handler")
                              /\ UNCHANGED <<history, callIdx, round, localToolCalls, totals>>
                         ELSE LET out == Item("output", call.id, name,
                                              IF callErr THEN encodeError(provider)
                                              ELSE IF cancelled.on /\ src # 0
                                              THEN [encodeResult(provider)
                                                      EXCEPT !.body = "is_error"]
                                              ELSE encodeResult(provider))
                                  h0 == IF provider = "gemini"
                                        THEN AppendRecord(history,
                                                 Item("call", 0, call.name, NoPayload))
                                        ELSE history
                              IN  Advance(AppendRecord(h0, out), localToolCalls + 1)

\* The caller cancels ctx while the tool loop runs.  From then on a provider
\* request fails with the context's error, a local handler returns it, and
\* ToolAdapter.ExecuteTool turns the failed CallTool into an is_error payload.
Cancel ==
    /\ pc \in {"request", "exec"}
    /\ received >= 1
    /\ ~cancelled.on
    /\ cancelled' = [on |-> TRUE, requests |-> requestCount,
                     invocations |-> Len(invocations), received |-> received]
    /\ UNCHANGED <<cfgVars, thinking, pc, outcome, meta, conns, adapters, toolVars,
                   cleanupArmed, loopVars, sideVars>>

Next ==
    \/ Cancel
    \/ RejectOptions
    \/ AssembleNative
    \/ BuildLocalTools
    \/ ConnectAdapter
    \/ FinishBuild
    \/ Request
    \/ ExecCall

Spec == Init /\ [][Next]_vars


(***************************************************************************)
(* mcp.ToolAdapter under concurrent callers.  Every caller runs Connect,   *)
(* RefreshTools, Disconnect and ExecuteTool on one adapter, one step per   *)
(* lock operation and per network call.                                    *)
(***************************************************************************)

\* No Generate call is running.
GenerateIdle ==
    /\ provider = "ollama"
    /\ cfgTools = <<>>
    /\ cfgMCP = <<>>
    /\ thinking = FALSE
    /\ ignoreInvalid = FALSE
    /\ thinkingSupported = TRUE
    /\ pc = "idle"
    /\ outcome = "none"
    /\ meta = <<>>
    /\ conns = <<>>
    /\ adapters = <<>>
    /\ combined = <<>>
    /\ handlers = <<>>
    /\ cleanupArmed = FALSE
    /\ history = <<>>
    /\ calls = <<>>
    /\ callIdx = 1
    /\ round = 0
    /\ inLoop = FALSE
    /\ localToolCalls = 0
    /\ totals = [APICalls |-> 0, ToolRounds |-> 0]
    /\ handlerErrors = 0
    /\ cancelled = NotCancelled
    /\ requestCount = 0
    /\ sent = <<>>
    /\ response = <<>>
    /\ invocations = <<>>
    /\ received = 0
    /\ allHandled = TRUE
    /\ unknownSeen = FALSE

\* The state the adapter's operations leave alone.
outsideAdapter == <<snapVars, genVars, cacheVars, storeVars, structVars, optVars>>

\* sync.RWMutex.
CanLock(m) == m.writer = 0 /\ m.readers = {}
CanRLock(m) == m.writer = 0
LockNothing(m, t) == m
Lock(m, t) == [m EXCEPT !.writer = t]
Unlock(m, t) == [m EXCEPT !.writer = 0]
RLock(m, t) == [m EXCEPT !.readers = @ \cup {t}]
RUnlock(m, t) == [m EXCEPT !.readers = @ \ {t}]

\* client.Close on transport c.
CloseTransport(ts, c) ==
    [ts EXCEPT ![c] = [open |-> FALSE, closes |-> @.closes + 1]]

\* A caller returns from its operation: what it returned stays, the tool
\* list it had fetched goes out of scope.
Finish(t, loc) ==
    /\ tpc' = [tpc EXCEPT ![t] = "idle"]
    /\ tloc' = [tloc EXCEPT ![t] = [loc EXCEPT !.listed = <<>>]]

\* A caller moves on inside its operation.
Goto(t, label, loc) ==
    /\ tpc' = [tpc EXCEPT ![t] = label]
    /\ tloc' = [tloc EXCEPT ![t] = loc]

\* Connect up to the lock: a new client is created, initialized and asked
\* for its tools; on failure it is closed and Connect returns the error.
ConnectBegin ==
    \E t \in Threads :
      /\ tpc[t] = "idle"
      /\ Len(transports) < MaxConnects
      /\ UNCHANGED <<outsideAdapter, adapterAllowed, adapterClient, adapterTools, adapterMu>>
      /\ LET c == Len(transports) + 1
             loc == [NoLocals EXCEPT !.op = "connect", !.c = c]
         IN  \/ /\ transports' = Append(transports, [open |-> FALSE, closes |-> 1])
                /\ Finish(t, [loc EXCEPT !.err = "err_connect"])
             \/ \E advertised \in ServerToolLists :
                  /\ transports' = Append(transports, [open |-> TRUE, closes |-> 0])
                  /\ Goto(t, "connect_lock", [loc EXCEPT !.listed = advertised])

\* Connect: a.mu.Lock().
ConnectLock ==
    \E t \in Threads :
      /\ tpc[t] = "connect_lock"
      /\ CanLock(adapterMu)
      /\ adapterMu' = Lock(adapterMu, t)
      /\ Goto(t, "connect_write", tloc[t])
      /\ UNCHANGED <<outsideAdapter, adapterAllowed, adapterClient, adapterTools, transports>>

\* Connect under the lock: the previous client is closed, the new client and
\* its filtered tools are stored, the deferred Unlock runs.
ConnectWrite ==
    \E t \in Threads :
      /\ tpc[t] = "connect_write"
      /\ transports' = IF adapterClient # 0
                       THEN CloseTransport(transports, adapterClient)
                       ELSE transports
      /\ adapterClient' = tloc[t].c
      /\ adapterTools' = filterAllowedTools(adapterAllowed, tloc[t].listed)
      /\ adapterMu' = Unlock(adapterMu, t)
      /\ Finish(t, tloc[t])
      /\ UNCHANGED <<outsideAdapter, adapterAllowed>>

\* RefreshTools: a.mu.RLock().
RefreshRLock ==
    \E t \in Threads :
      /\ tpc[t] = "idle"
      /\ CanRLock(adapterMu)
      /\ adapterMu' = RLock(adapterMu, t)
      /\ Goto(t, "refresh_read", [NoLocals EXCEPT !.op = "refresh"])
      /\ UNCHANGED <<outsideAdapter, adapterAllowed, adapterClient, adapterTools, transports>>

\* RefreshTools: c := a.client; a.mu.RUnlock(); a nil client is an error.
RefreshRead ==
    \E t \in Threads :
      /\ tpc[t] = "refresh_read"
      /\ adapterMu' = RUnlock(adapterMu, t)
      /\ IF adapterClient = 0
         THEN Finish(t, [tloc[t] EXCEPT !.err = "err_not_connected"])
         ELSE Goto(t, "refresh_list", [tloc[t] EXCEPT !.c = adapterClient])
      /\ UNCHANGED <<outsideAdapter, adapterAllowed, adapterClient, adapterTools, transports>>

\* RefreshTools: c.ListTools, outside the lock.  A closed client fails.
RefreshList ==
    \E t \in Threads :
      /\ tpc[t] = "refresh_list"
      /\ UNCHANGED <<outsideAdapter, adapterAllowed, adapterClient, adapterTools, adapterMu,
                     transports>>
      /\ \/ Finish(t, [tloc[t] EXCEPT !.err = "err_list"])
         \/ /\ transports[tloc[t].c].open
            /\ \E advertised \in ServerToolLists :
                 Goto(t, "refresh_lock", [tloc[t] EXCEPT !.listed = advertised])

\* RefreshTools: a.mu.Lock().
RefreshLock ==
    \E t \in Threads :
      /\ tpc[t] = "refresh_lock"
      /\ CanLock(adapterMu)
      /\ adapterMu' = Lock(adapterMu, t)
      /\ Goto(t, "refresh_write", tloc[t])
      /\ UNCHANGED <<outsideAdapter, adapterAllowed, adapterClient, adapterTools, transports>>

\* RefreshTools under the lock: a.tools is replaced; a.mu.Unlock().
RefreshWrite ==
    \E t \in Threads :
      /\ tpc[t] = "refresh_write"
      /\ adapterTools' = filterAllowedTools(adapterAllowed, tloc[t].listed)
      /\ adapterMu' = Unlock(adapterMu, t)
      /\ Finish(t, tloc[t])
      /\ UNCHANGED <<outsideAdapter, adapterAllowed, adapterClient, transports>>

\* Disconnect: a.mu.Lock().
DisconnectLock ==
    \E t \in Threads :
      /\ tpc[t] = "idle"
      /\ CanLock(adapterMu)
      /\ adapterMu' = Lock(adapterMu, t)
      /\ Goto(t, "disconnect_close",
              [NoLocals EXCEPT !.op = "disconnect", !.c = adapterClient])
      /\ UNCHANGED <<outsideAdapter, adapterAllowed, adapterClient, adapterTools, transports>>

\* What Disconnect leaves in a.client.
KeepClient(c) == c
ClearClient(c) == 0

\* Disconnect under the lock: a non-nil client is closed, client and tools
\* become nil, the deferred Unlock runs; the error of Close is returned.
DisconnectClose ==
    \E t \in Threads :
      /\ tpc[t] = "disconnect_close"
      /\ adapterClient' = ClearClient(adapterClient)
      /\ adapterTools' = <<>>
      /\ adapterMu' = Unlock(adapterMu, t)
      /\ UNCHANGED <<outsideAdapter, adapterAllowed>>
      /\ IF adapterClient # 0
         THEN /\ transports' = CloseTransport(transports, adapterClient)
              /\ \E closeErr \in {"", "err_close"} :
                   Finish(t, [tloc[t] EXCEPT !.err = closeErr])
         ELSE /\ UNCHANGED transports
              /\ Finish(t, tloc[t])

\* Inputs of ExecuteTool: the tool name and the raw JSON arguments.
ExecNames == {"b", ""}
ExecArgs == {"{\"v\":1}", "null", "", "{\"v\":"}

\* json.Unmarshal of the raw arguments into a map: "" when it fails.  Empty
\* and null arguments are not parsed and leave the empty map.
parseArgs(raw) ==
    CASE raw \in {"", "null"} -> "{}"
      [] raw = "{\"v\":1}" -> "{v:1}"
      [] OTHER -> ""

\* What CallTool may return with a nil error: no result, a result, a result
\* on which the tool reports an error.
CallToolResults ==
    {[nil |-> TRUE, IsError |-> FALSE, Content |-> "", StructuredContent |-> ""],
     [nil |-> FALSE, IsError |-> FALSE, Content |-> "done", StructuredContent |-> "ok"],
     [nil |-> FALSE, IsError |-> TRUE, Content |-> "tool failed", StructuredContent |-> ""]}

\* ExecuteTool's value when the call or its normalization failed.
propagateFailure(msg) == [err |-> msg, payload |-> <<>>]
callFailurePayload(msg) == [err |-> "", payload |-> [is_error |-> TRUE, error |-> msg]]

\* normalizeCallToolResult and its use in ExecuteTool.
normalizeCallToolResult(result) ==
    IF result.nil THEN callFailurePayload("nil call tool result")
    ELSE [err |-> "",
          payload |-> [is_error |-> result.IsError,
                       content |-> result.Content,
                       structured_content |-> result.StructuredContent]]

\* ExecuteTool: a.mu.RLock().
ExecRLock ==
    \E t \in Threads :
      /\ tpc[t] = "idle"
      /\ CanRLock(adapterMu)
      /\ adapterMu' = RLock(adapterMu, t)
      /\ Goto(t, "exec_read", [NoLocals EXCEPT !.op = "execute"])
      /\ UNCHANGED <<outsideAdapter, adapterAllowed, adapterClient, adapterTools, transports>>

\* ExecuteTool: c := a.client; a.mu.RUnlock(); then the checks that return a
\* Go error: nil client, empty tool name, arguments that do not parse.
ExecRead ==
    \E t \in Threads :
      /\ tpc[t] = "exec_read"
      /\ adapterMu' = RUnlock(adapterMu, t)
      /\ UNCHANGED <<outsideAdapter, adapterAllowed, adapterClient, adapterTools, transports>>
      /\ \E toolName \in ExecNames, raw \in ExecArgs :
           LET loc == [tloc[t] EXCEPT !.c = adapterClient]
           IN  IF adapterClient = 0
               THEN Finish(t, [loc EXCEPT !.err = "err_not_connected"])
               ELSE IF toolName = ""
               THEN Finish(t, [loc EXCEPT !.err = "err_tool_name"])
               ELSE IF parseArgs(raw) = ""
               THEN Finish(t, [loc EXCEPT !.err = "err_arguments"])
               ELSE Goto(t, "exec_call", loc)

\* ExecuteTool: c.CallTool, outside the lock, and the value returned.  The
\* call fails in transport, always so on a closed client, or returns.
ExecCallTool ==
    \E t \in Threads :
      /\ tpc[t] = "exec_call"
      /\ UNCHANGED <<outsideAdapter, adapterAllowed, adapterClient, adapterTools, adapterMu,
                     transports>>
      /\ LET live == transports[tloc[t].c].open
             loc == tloc[t]
         IN  \/ LET ret == callFailurePayload("call failed")
                IN  Finish(t, [loc EXCEPT !.outcome = "transport",
                                          !.err = ret.err, !.payload = ret.payload])
             \/ /\ live
                /\ \E result \in CallToolResults :
                     LET ret == normalizeCallToolResult(result)
                     IN  Finish(t, [loc EXCEPT
                             !.outcome = IF result.nil THEN "nil_result"
                                         ELSE IF result.IsError THEN "tool_error"
                                         ELSE "ok",
                             !.err = ret.err, !.payload = ret.payload])

InitAdapter ==
    /\ GenerateIdle
    /\ CacheFresh
    /\ StoreFresh
    /\ StructFresh
    /\ OptionsFresh
    /\ SnapshotFresh
    /\ adapterAllowed \in {normalizeAllowedTools(names) : names \in AllowedToolsInputs}
    /\ AdapterFresh

NextAdapter ==
    \/ ConnectBegin
    \/ ConnectLock
    \/ ConnectWrite
    \/ RefreshRLock
    \/ RefreshRead
    \/ RefreshList
    \/ RefreshLock
    \/ RefreshWrite
    \/ DisconnectLock
    \/ DisconnectClose
    \/ ExecRLock
    \/ ExecRead
    \/ ExecCallTool

SpecAdapter == InitAdapter /\ [][NextAdapter]_vars

(***************************************************************************)
(* mcp.FetchListOfTools and its process-wide cache under concurrent        *)
(* callers.  A []string value is the index of its backing array in         *)
(* `slices`, so that two values sharing an array see each other's writes.  *)
(***************************************************************************)

\* The state FetchListOfTools leaves alone.
outsideCache == <<snapVars, genVars, mcpVars, storeVars, structVars, optVars>>

\* append([]string(nil), s...): a new backing array with the elements of s.
shareSlice(h, id) == [slices |-> h, id |-> id]
copySlice(h, id) == [slices |-> Append(h, h[id]), id |-> Len(h) + 1]

\* A caller returns from FetchListOfTools; its arguments go out of scope.
FetchReturn(t, loc) ==
    /\ fpc' = [fpc EXCEPT ![t] = "idle"]
    /\ floc' = [floc EXCEPT ![t] = [loc EXCEPT !.auth = ""]]

\* tmpTools, found = cachedToolsByURL[serverURL] under the exclusive lock.
skipLookup(cache, u) == 0
secondLookup(cache, u) == cache[u]

\* FetchListOfTools: cachedToolsMutex.RLock().
FetchRLock ==
    \E t \in Threads, u \in URLs, authToken \in {"token_a", "token_b"} :
      /\ fpc[t] = "idle"
      /\ fetches < MaxFetches
      /\ CanRLock(cachedToolsMutex)
      /\ cachedToolsMutex' = RLock(cachedToolsMutex, t)
      /\ fetches' = fetches + 1
      /\ fpc' = [fpc EXCEPT ![t] = "fetch_read"]
      /\ floc' = [floc EXCEPT ![t] =
                    [NoFetch EXCEPT !.url = u, !.auth = authToken,
                                    !.changed = floc[t].changed,
                                    !.afterChange = u \in floc[t].changed]]
      /\ UNCHANGED <<outsideCache, cachedToolsByURL, slices, served>>

\* FetchListOfTools: the lookup under the shared lock and RUnlock.
FetchRead ==
    \E t \in Threads :
      /\ fpc[t] = "fetch_read"
      /\ cachedToolsMutex' = RUnlock(cachedToolsMutex, t)
      /\ LET found == cachedToolsByURL[floc[t].url]
         IN  /\ fpc' = [fpc EXCEPT ![t] = IF found # 0 THEN "fetch_hit" ELSE "fetch_lock"]
             /\ floc' = [floc EXCEPT ![t].tmp = found]
      /\ UNCHANGED <<outsideCache, cachedToolsByURL, slices, served, fetches>>

\* FetchListOfTools: a hit under the shared lock returns a copy.
FetchHit ==
    \E t \in Threads :
      /\ fpc[t] = "fetch_hit"
      /\ LET cp == copySlice(slices, floc[t].tmp)
         IN  /\ slices' = cp.slices
             /\ FetchReturn(t, [floc[t] EXCEPT !.ret = cp.id, !.hit = TRUE,
                                               !.got = cp.slices[cp.id]])
      /\ UNCHANGED <<outsideCache, cachedToolsByURL, cachedToolsMutex, served, fetches>>

\* FetchListOfTools: cachedToolsMutex.Lock(), released when the call returns.
FetchLock ==
    \E t \in Threads :
      /\ fpc[t] = "fetch_lock"
      /\ CanLock(cachedToolsMutex)
      /\ cachedToolsMutex' = Lock(cachedToolsMutex, t)
      /\ fpc' = [fpc EXCEPT ![t] = "fetch_locked"]
      /\ UNCHANGED <<outsideCache, cachedToolsByURL, slices, served, fetches, floc>>

\* FetchListOfTools under the exclusive lock: the second lookup; on a miss
\* the server is asked, and its names are stored as a copy and returned as
\* another copy.  A failed fetch stores nothing.
FetchLocked ==
    \E t \in Threads :
      /\ fpc[t] = "fetch_locked"
      /\ cachedToolsMutex' = Unlock(cachedToolsMutex, t)
      /\ UNCHANGED <<outsideCache, fetches>>
      /\ LET u == floc[t].url
             found == secondLookup(cachedToolsByURL, u)
         IN  IF found # 0
             THEN LET cp == copySlice(slices, found)
                  IN  /\ slices' = cp.slices
                      /\ FetchReturn(t, [floc[t] EXCEPT !.tmp = found, !.ret = cp.id,
                                             !.hit = TRUE, !.got = cp.slices[cp.id]])
                      /\ UNCHANGED <<cachedToolsByURL, served>>
             ELSE \/ /\ FetchReturn(t, [floc[t] EXCEPT !.err = "err_fetch"])
                     /\ UNCHANGED <<cachedToolsByURL, slices, served>>
                  \/ \E names \in ServerToolLists :
                       LET h1 == Append(slices, names)
                           tmp == Len(h1)
                           stored == copySlice(h1, tmp)
                           cp == copySlice(stored.slices, tmp)
                       IN  /\ slices' = cp.slices
                           /\ cachedToolsByURL' = [cachedToolsByURL EXCEPT ![u] = stored.id]
                           /\ served' = [served EXCEPT
                                  ![u] = [names |-> names, auth |-> floc[t].auth]]
                           /\ FetchReturn(t, [floc[t] EXCEPT !.tmp = tmp, !.ret = cp.id,
                                                  !.got = cp.slices[cp.id]])

\* The caller overwrites the elements of the list it was handed.
ChangeReturned ==
    \E t \in Threads :
      /\ fpc[t] = "idle"
      /\ floc[t].ret # 0
      /\ floc[t].url \notin floc[t].changed
      /\ slices' = [slices EXCEPT ![floc[t].ret] = [i \in DOMAIN @ |-> "x"]]
      /\ floc' = [floc EXCEPT ![t].changed = @ \cup {floc[t].url}]
      /\ UNCHANGED <<outsideCache, cachedToolsByURL, cachedToolsMutex, served, fetches, fpc>>

InitCache ==
    /\ GenerateIdle
    /\ adapterAllowed = {}
    /\ AdapterFresh
    /\ CacheFresh
    /\ StoreFresh
    /\ StructFresh
    /\ OptionsFresh
    /\ SnapshotFresh

NextCache ==
    \/ FetchRLock
    \/ FetchRead
    \/ FetchHit
    \/ FetchLock
    \/ FetchLocked
    \/ ChangeReturned

SpecCache == InitCache /\ [][NextCache]_vars

(***************************************************************************)
(* The prompt-context store of a generator under concurrent callers of     *)
(* AddPromptContext, AddPromptContextProvider and inputItemsWithContext    *)
(* (the first step of Generate).  The six provider packages hold the same  *)
(* code.                                                                   *)
(***************************************************************************)

\* The state the store's operations leave alone.
outsideStore == <<snapVars, genVars, mcpVars, cacheVars, structVars, optVars>>

\* What a caller may add: a message type and a content.
ContextInputs ==
    {[MessageType |-> "system", Content |-> "be brief"],
     [MessageType |-> "human", Content |-> " "]}

\* The providers a caller may register; "nil" is the nil interface value.
ProviderInputs == {"nil", "provider"}

\* What provider.GenerateContext may return with a nil error.
ProvidedLists == {<<>>, <<[id |-> 0, MessageType |-> "assistant", Content |-> "earlier answer"]>>}

\* g.promptContexts = append(g.promptContexts, entry), and the same for the
\* providers.
overwriteEntries(list, entry) == <<entry>>
appendEntry(list, entry) == Append(list, entry)

\* contexts = append(contexts, provided...) in the loop over the providers.
prependProvided(contexts, provided) == provided \o contexts
appendProvided(contexts, provided) == contexts \o provided

\* A provider returned an error: inputItemsWithContext returns it.
skipProvider(loc) == [loc EXCEPT !.next = @ + 1]
returnProviderError(loc) == [loc EXCEPT !.err = "err_context_provider"]

\* buildInputItemsWithContext: the contexts with non-blank content in order,
\* each in the role of its message type, then the prompt as a user message.
\* id is the store entry a message stems from, 0 for the other messages.
buildInputItemsWithContext(prompt, contexts) ==
    LET kept(c) == TrimSpace(c.Content) # ""
        mapContextMessageRole(type) ==
            CASE type = "system" -> "system"
              [] type = "assistant" -> "assistant"
              [] OTHER -> "user"
        msg(c) == [role |-> mapContextMessageRole(c.MessageType),
                   content |-> TrimSpace(c.Content), id |-> c.id]
        ctxs == SelectSeq(contexts, kept)
    IN  [i \in DOMAIN ctxs |-> msg(ctxs[i])]
        \o <<[role |-> "user", content |-> prompt, id |-> 0]>>

\* The messages Generate hands to the request flow: the structured generator
\* of ollama appends the schema instruction as one more user message.
flowInput(generator, items) ==
    IF generator = "ollama_structured"
    THEN Append(items, [role |-> "user", content |-> "schema instruction", id |-> 0])
    ELSE items

\* A caller returns: its result stays, its other locals go out of scope.
StoreReturn(t, loc) ==
    /\ spc' = [spc EXCEPT ![t] = "idle"]
    /\ sloc' = [sloc EXCEPT ![t] = [NoStoreLocals EXCEPT !.op = loc.op,
                                       !.generator = loc.generator,
                                       !.failed = loc.failed,
                                       !.items = loc.items, !.err = loc.err,
                                       !.flowStarted = loc.flowStarted]]

StoreGoto(t, label, loc) ==
    /\ spc' = [spc EXCEPT ![t] = label]
    /\ sloc' = [sloc EXCEPT ![t] = loc]

\* AddPromptContext: g.promptContextMu.Lock().
AddContextLock ==
    \E t \in Threads, in \in ContextInputs :
      /\ spc[t] = "idle"
      /\ adds < MaxAdds
      /\ CanLock(promptContextMu)
      /\ promptContextMu' = Lock(promptContextMu, t)
      /\ adds' = adds + 1
      /\ StoreGoto(t, "add_context",
             [NoStoreLocals EXCEPT !.op = "add_context",
                 !.entry = [id |-> adds + 1, MessageType |-> in.MessageType,
                            Content |-> in.Content]])
      /\ UNCHANGED <<outsideStore, promptContexts, promptContextProviders, accepted>>

\* AddPromptContext under the lock: the append and the deferred Unlock.
AddContextAppend ==
    \E t \in Threads :
      /\ spc[t] = "add_context"
      /\ promptContexts' = appendEntry(promptContexts, sloc[t].entry)
      /\ promptContextMu' = Unlock(promptContextMu, t)
      /\ accepted' = accepted \cup {sloc[t].entry.id}
      /\ StoreReturn(t, sloc[t])
      /\ UNCHANGED <<outsideStore, promptContextProviders, adds>>

\* AddPromptContextProvider: a nil provider is ignored; otherwise
\* g.promptContextMu.Lock().
AddProviderLock ==
    \E t \in Threads, in \in ProviderInputs :
      /\ spc[t] = "idle"
      /\ adds < MaxAdds
      /\ adds' = adds + 1
      /\ UNCHANGED <<outsideStore, promptContexts, promptContextProviders, accepted>>
      /\ IF in = "nil"
         THEN /\ StoreReturn(t, [NoStoreLocals EXCEPT !.op = "add_provider"])
              /\ UNCHANGED promptContextMu
         ELSE /\ CanLock(promptContextMu)
              /\ promptContextMu' = Lock(promptContextMu, t)
              /\ StoreGoto(t, "add_provider",
                     [NoStoreLocals EXCEPT !.op = "add_provider",
                                           !.entry = [id |-> adds + 1]])

\* AddPromptContextProvider under the lock: the append and the Unlock.
AddProviderAppend ==
    \E t \in Threads :
      /\ spc[t] = "add_provider"
      /\ promptContextProviders' = appendEntry(promptContextProviders, sloc[t].entry)
      /\ promptContextMu' = Unlock(promptContextMu, t)
      /\ accepted' = accepted \cup {sloc[t].entry.id}
      /\ StoreReturn(t, sloc[t])
      /\ UNCHANGED <<outsideStore, promptContexts, adds>>

\* Generate, in inputItemsWithContext: g.promptContextMu.RLock().
ComposeRLock ==
    \E t \in Threads :
      /\ spc[t] = "idle"
      /\ CanRLock(promptContextMu)
      /\ promptContextMu' = RLock(promptContextMu, t)
      /\ StoreGoto(t, "copy_contexts", [NoStoreLocals EXCEPT !.op = "compose"])
      /\ UNCHANGED <<outsideStore, promptContexts, promptContextProviders, adds, accepted>>

\* inputItemsWithContext: contexts := copy of g.promptContexts.
ComposeCopyContexts ==
    \E t \in Threads :
      /\ spc[t] = "copy_contexts"
      /\ StoreGoto(t, "copy_providers", [sloc[t] EXCEPT !.contexts = promptContexts])
      /\ UNCHANGED <<outsideStore, promptContexts, promptContextProviders,
                     promptContextMu, adds, accepted>>

\* inputItemsWithContext: providers := copy of g.promptContextProviders;
\* g.promptContextMu.RUnlock().
ComposeCopyProviders ==
    \E t \in Threads :
      /\ spc[t] = "copy_providers"
      /\ promptContextMu' = RUnlock(promptContextMu, t)
      /\ StoreGoto(t, "provide", [sloc[t] EXCEPT !.providers = promptContextProviders])
      /\ UNCHANGED <<outsideStore, promptContexts, promptContextProviders, adds, accepted>>

\* inputItemsWithContext, outside the lock: one iteration of the loop over
\* the copied providers, or, after the last one, buildInputItemsWithContext
\* and the rest of Generate up to the call of the request flow.  A provider
\* error makes Generate return before that call.  The entries a provider
\* returns carry the id of the provider.  Up to the end of the loop the two
\* generators run the same code, so which of them the caller uses shows
\* only in the last step.
ComposeProvide ==
    \E t \in Threads :
      /\ spc[t] = "provide"
      /\ UNCHANGED <<outsideStore, promptContexts, promptContextProviders,
                     promptContextMu, adds, accepted>>
      /\ IF sloc[t].next <= Len(sloc[t].providers)
         THEN \/ LET loc == returnProviderError([sloc[t] EXCEPT !.failed = TRUE])
                 IN  IF loc.err # "" THEN StoreReturn(t, loc) ELSE StoreGoto(t, "provide", loc)
              \/ \E list \in ProvidedLists :
                   LET provided == [i \in DOMAIN list |->
                           [list[i] EXCEPT !.id = sloc[t].providers[sloc[t].next].id]]
                   IN  StoreGoto(t, "provide",
                           [sloc[t] EXCEPT !.contexts = appendProvided(@, provided),
                                           !.next = @ + 1])
         ELSE \E generator \in {"openai_response_text", "ollama_structured"} :
                StoreReturn(t, [sloc[t] EXCEPT
                  !.generator = generator,
                  !.items = flowInput(generator,
                                buildInputItemsWithContext("prompt", sloc[t].contexts)),
                  !.flowStarted = TRUE])

InitStore ==
    /\ GenerateIdle
    /\ adapterAllowed = {}
    /\ AdapterFresh
    /\ CacheFresh
    /\ StoreFresh
    /\ StructFresh
    /\ OptionsFresh
    /\ SnapshotFresh

NextStore ==
    \/ AddContextLock
    \/ AddContextAppend
    \/ AddProviderLock
    \/ AddProviderAppend
    \/ ComposeRLock
    \/ ComposeCopyContexts
    \/ ComposeCopyProviders
    \/ ComposeProvide

SpecStore == InitStore /\ [][NextStore]_vars

(***************************************************************************)
(* The structured generator of ollama after the tool loop: the final text  *)
(* is parsed as JSON and, when that fails, one repair request is sent and  *)
(* its output parsed.  A text is a sequence of tokens: a markdown fence    *)
(* (FENCE_JSON or FENCE), a space, a brace, "m" for a well-formed run of   *)
(* members of T, "p" for anything else.  The texts considered are a body   *)
(* of braces, members and prose, bare or between fences and spaces.        *)
(***************************************************************************)
outsideStructured == <<snapVars, genVars, mcpVars, cacheVars, storeVars, optVars>>

Tokens == {"{", "}", "m", "p"}
Openings == {<<>>, <<"FENCE_JSON">>, <<" ", "FENCE">>}
Closings == {<<>>, <<"FENCE", " ">>}
Texts == {open \o body \o close :
             open \in Openings, body \in SeqsUpTo(Tokens, MaxTextLen), close \in Closings}
\* The outputs considered for the repair request, which asks for JSON only.
RepairedTexts == {open \o body :
                     open \in {<<>>, <<"FENCE_JSON">>}, body \in SeqsUpTo(Tokens, MaxTextLen)}

\* strings.TrimSpace on a text.
RECURSIVE TrimLeft(_)
TrimLeft(text) ==
    IF text # <<>> /\ text[1] = " " THEN TrimLeft(Tail(text)) ELSE text
RECURSIVE TrimRight(_)
TrimRight(text) ==
    IF text # <<>> /\ text[Len(text)] = " "
    THEN TrimRight(SubSeq(text, 1, Len(text) - 1)) ELSE text
TrimSpaces(text) == TrimRight(TrimLeft(text))

\* strings.TrimPrefix and strings.TrimSuffix with a one-token affix.
TrimPrefixToken(text, tok) ==
    IF text # <<>> /\ text[1] = tok THEN Tail(text) ELSE text
TrimSuffixToken(text, tok) ==
    IF text # <<>> /\ text[Len(text)] = tok
    THEN SubSeq(text, 1, Len(text) - 1) ELSE text

\* strings.Index and strings.LastIndex, 0 standing for -1.
Index(text, tok) ==
    IF \E i \in DOMAIN text : text[i] = tok
    THEN CHOOSE i \in DOMAIN text :
             text[i] = tok /\ \A j \in DOMAIN text : text[j] = tok => i <= j
    ELSE 0
LastIndex(text, tok) ==
    IF \E i \in DOMAIN text : text[i] = tok
    THEN CHOOSE i \in DOMAIN text :
             text[i] = tok /\ \A j \in DOMAIN text : text[j] = tok => j <= i
    ELSE 0

extractJSONPayload(text) ==
    LET t0 == TrimSpaces(text)
        t1 == TrimPrefixToken(t0, "FENCE_JSON")
        t2 == TrimPrefixToken(t1, "FENCE")
        t3 == TrimSuffixToken(t2, "FENCE")
        trimmed == TrimSpaces(t3)
        start == Index(trimmed, "{")
        end == LastIndex(trimmed, "}")
    IN  IF start >= 1 /\ end > start
        THEN TrimSpaces(SubSeq(trimmed, start, end))
        ELSE trimmed

\* json.Unmarshal of a payload into T succeeds: one object whose braces
\* enclose well-formed members.
Unmarshals(payload) ==
    /\ Len(payload) >= 2
    /\ payload[1] = "{"
    /\ payload[Len(payload)] = "}"
    /\ \A i \in 2..(Len(payload) - 1) : payload[i] \in {"m", " "}

\* The chat requests a successful runChatFlow may have sent: one, or one per
\* tool round and a last one.
FlowCallCounts == {1, 2}

\* Generate returns with metadata m: the deferred setLatencyMetadata runs.
StructReturn(out, m) ==
    /\ structPc' = "done"
    /\ structOutcome' = out
    /\ \E ms \in ElapsedMs : structMeta' = setLatencyMetadata(m, ms)

\* applyOllamaMetadata(meta, totals) after a flow of n chat requests.
applyOllamaMetadata(n) ==
    applyMetadata(initMetadata("ollama"), [APICalls |-> n, ToolRounds |-> n - 1])

\* Generate up to the first json.Unmarshal: runChatFlow returns an error or
\* the final text, which parses or leads to the repair request.
StructuredFlow ==
    /\ structPc = "flow"
    /\ UNCHANGED outsideStructured
    /\ UNCHANGED repairRequests
    /\ \/ /\ StructReturn("err_flow", initMetadata("ollama"))
          /\ UNCHANGED <<parsedText, parseAttempts, flowCalls>>
       \/ \E finalText \in Texts, n \in FlowCallCounts :
            /\ parsedText' = finalText
            /\ parseAttempts' = parseAttempts + 1
            /\ flowCalls' = n
            /\ IF Unmarshals(extractJSONPayload(finalText))
               THEN StructReturn("ok", applyOllamaMetadata(n))
               ELSE /\ structPc' = "repair"
                    /\ structMeta' = applyOllamaMetadata(n)
                    /\ UNCHANGED structOutcome

\* What Generate does when the repaired output does not parse either.
repairAgain(n) == IF n < MaxRepairs THEN "repair" ELSE "done"
afterRepairFailure(n) == "done"

\* The rest of Generate: repairStructuredJSON sends one request; its output
\* is parsed, and Generate returns whatever the parse gives.
Repair ==
    /\ structPc = "repair"
    /\ repairRequests < MaxRepairs
    /\ UNCHANGED outsideStructured
    /\ repairRequests' = repairRequests + 1
    /\ UNCHANGED flowCalls
    /\ LET m == applyOllamaMetadata(flowCalls)
       IN
       \/ /\ StructReturn("err_parse", m)
          /\ UNCHANGED <<parsedText, parseAttempts>>
       \/ \E repaired \in RepairedTexts :
            /\ parsedText' = repaired
            /\ parseAttempts' = parseAttempts + 1
            /\ IF Unmarshals(extractJSONPayload(repaired))
               THEN StructReturn("ok", m)
               ELSE IF afterRepairFailure(repairRequests + 1) = "done"
               THEN StructReturn("err_parse", m)
               ELSE /\ structPc' = afterRepairFailure(repairRequests + 1)
                    /\ UNCHANGED <<structOutcome, structMeta>>

InitStructured ==
    /\ GenerateIdle
    /\ adapterAllowed = {}
    /\ AdapterFresh
    /\ CacheFresh
    /\ StoreFresh
    /\ StructFresh
    /\ OptionsFresh
    /\ SnapshotFresh

NextStructured ==
    \/ StructuredFlow
    \/ Repair

SpecStructured == InitStructured /\ [][NextStructured]_vars

(***************************************************************************)
(* Option resolution and normalization in openai_response.  A model name   *)
(* is a sequence of characters; the optional fields of the config are      *)
(* pointers.                                                               *)
(***************************************************************************)
outsideOptions == <<genVars, mcpVars, cacheVars, storeVars, structVars, snapVars>>

defaultModelName == <<"g", "p", "t", "-", "5", "-", "m", "i", "n", "i">>

ModelNames ==
    {<<>>, <<"o", "1">>, <<" ", "O", "3">>, <<"g", "p", "t", "-", "5">>,
     <<"g", "p", "t", "-", "4">>, <<"x", "o", "1">>}

\* The option mutators a caller can pass: With<kind>(value).
Options ==
    [kind : {"IgnoreInvalidGeneratorOptions"}, value : BOOLEAN]
    \cup [kind : {"Temperature"}, value : {"0", "0.7"}]
    \cup [kind : {"MaxTokens"}, value : {"100"}]
    \cup [kind : {"Model"}, value : ModelNames]
    \cup [kind : {"ReasoningLevel"}, value : {"none", "high"}]

\* One option applied to the config: each With... function sets its field.
apply(cfg, opt) ==
    CASE opt.kind = "IgnoreInvalidGeneratorOptions"
           -> [cfg EXCEPT !.IgnoreInvalidGeneratorOptions = opt.value]
      [] opt.kind = "Temperature" -> [cfg EXCEPT !.Temperature = Ptr(opt.value)]
      [] opt.kind = "MaxTokens" -> [cfg EXCEPT !.MaxTokens = Ptr(opt.value)]
      [] opt.kind = "Model" -> [cfg EXCEPT !.Model = Ptr(opt.value)]
      [] OTHER -> [cfg EXCEPT !.ReasoningLevel = Ptr(opt.value)]

\* ResolveGeneratorOpts: the options applied in order to the zero config.
RECURSIVE ResolveFrom(_, _)
ResolveFrom(cfg, list) ==
    IF list = <<>> THEN cfg ELSE ResolveFrom(apply(cfg, Head(list)), Tail(list))
ResolveGeneratorOpts(list) == ResolveFrom(ZeroConfig, list)

\* resolveModelName: the trimmed cfg.Model, or the default for nil and blank.
resolveModelName(cfg) ==
    IF cfg.Model.set /\ TrimSpaces(cfg.Model.v) # <<>>
    THEN TrimSpaces(cfg.Model.v) ELSE defaultModelName

\* strings.ToLower on the letters that occur in the names.
ToLower(name) ==
    [i \in DOMAIN name |->
        CASE name[i] = "O" -> "o" [] name[i] = "G" -> "g" [] name[i] = "P" -> "p"
          [] name[i] = "T" -> "t" [] name[i] = "X" -> "x" [] OTHER -> name[i]]

isReasoningModel(modelName) ==
    LET name == ToLower(TrimSpaces(modelName))
        HasPrefix(str, prefix) ==
            Len(str) >= Len(prefix) /\ SubSeq(str, 1, Len(prefix)) = prefix
    IN  /\ name # <<>>
        /\ \/ HasPrefix(name, <<"o", "1">>)
           \/ HasPrefix(name, <<"o", "3">>)
           \/ HasPrefix(name, <<"o", "4">>)
           \/ HasPrefix(name, <<"g", "p", "t", "-", "5">>)

\* cfg.Temperature = nil and cfg.ReasoningLevel = nil in the normalizer.
dropSampling(cfg) == [cfg EXCEPT !.Temperature = Nil, !.MaxTokens = Nil]
dropTemperature(cfg) == [cfg EXCEPT !.Temperature = Nil]

lowerReasoningLevel(cfg) ==
    [cfg EXCEPT !.ReasoningLevel = IF @.v = "high" THEN Ptr("none") ELSE Nil]
dropReasoningLevel(cfg) == [cfg EXCEPT !.ReasoningLevel = Nil]

normalizeGeneratorOptionsForModel(modelName, cfg) ==
    LET reasoningModel == isReasoningModel(modelName)
        badTemperature == cfg.Temperature.set /\ reasoningModel
        cfg1 == IF badTemperature /\ cfg.IgnoreInvalidGeneratorOptions
                THEN dropTemperature(cfg) ELSE cfg
        badLevel == cfg1.ReasoningLevel.set /\ ~reasoningModel
    IN  IF badTemperature /\ ~cfg.IgnoreInvalidGeneratorOptions
        THEN [cfg |-> cfg, err |-> "err_temperature"]
        ELSE IF badLevel /\ ~cfg1.IgnoreInvalidGeneratorOptions
        THEN [cfg |-> cfg1, err |-> "err_reasoning"]
        ELSE IF badLevel THEN [cfg |-> dropReasoningLevel(cfg1), err |-> ""]
        ELSE [cfg |-> cfg1, err |-> ""]

\* NewStringContentGenerator: an empty prompt is refused; otherwise the
\* generator keeps the resolved config as it is.
NewStringContentGenerator ==
    /\ optPc = "new"
    /\ UNCHANGED outsideOptions
    /\ \E prompt \in {"", "p"}, list \in SeqsUpTo(Options, MaxOpts) :
         /\ opts' = list
         /\ IF prompt = ""
            THEN /\ optPc' = "failed"
                 /\ genErr' = "err_prompt_required"
                 /\ UNCHANGED genCfg
            ELSE /\ optPc' = "built"
                 /\ genErr' = ""
                 /\ genCfg' = ResolveGeneratorOpts(list)
    /\ UNCHANGED <<normOut, normAgain>>

\* Generate, in buildInitialParams: the config is normalized for the model;
\* g.cfg itself is passed by value and stays as it is.
NormalizeInGenerate ==
    /\ optPc = "built"
    /\ UNCHANGED outsideOptions
    /\ normOut' = normalizeGeneratorOptionsForModel(resolveModelName(genCfg), genCfg)
    /\ optPc' = "normalized"
    /\ UNCHANGED <<opts, genCfg, genErr, normAgain>>

\* The normalizer applied to its own output.
NormalizeAgain ==
    /\ optPc = "normalized"
    /\ normOut.err = ""
    /\ UNCHANGED outsideOptions
    /\ normAgain' = normalizeGeneratorOptionsForModel(resolveModelName(normOut.cfg),
                                                      normOut.cfg)
    /\ optPc' = "renormalized"
    /\ UNCHANGED <<opts, genCfg, genErr, normOut>>

InitOptions ==
    /\ GenerateIdle
    /\ adapterAllowed = {}
    /\ AdapterFresh
    /\ CacheFresh
    /\ StoreFresh
    /\ StructFresh
    /\ OptionsFresh
    /\ SnapshotFresh

NextOptions ==
    \/ NewStringContentGenerator
    \/ NormalizeInGenerate
    \/ NormalizeAgain

SpecOptions == InitOptions /\ [][NextOptions]_vars

(***************************************************************************)
(* The tool options.  The caller owns a []Tool and a []MCPTool, each with  *)
(* one element; a Tool holds its schema map by reference ("schema"), an    *)
(* MCPTool its header map and its allow-list slice ("headers", "allowed"). *)
(* mem holds the backing arrays of the caller and of the config, and the   *)
(* one schema map, header map and allow-list array they all point to.      *)
(***************************************************************************)
outsideSnapshot == <<genVars, mcpVars, cacheVars, storeVars, structVars, optVars>>

\* json.Marshal of request parameters: the schema is read through the map
\* the parameters hold, at the time of the request.
Marshal(p, m) ==
    [Tools |-> [i \in DOMAIN p.Tools |->
                   [Name |-> p.Tools[i].Name, Parameters |-> m[p.Tools[i].Parameters]]],
     MCP |-> p.MCP]

\* mapLocalTools and mapMCPTools: the parameters of a request for the config
\* in memory m.  The schema map is passed on as it is; the headers and the
\* allow-list are copied.
mapTools(m) ==
    [Tools |-> [i \in DOMAIN m.cfgTools |->
                   [Name |-> m.cfgTools[i].Name, Parameters |-> m.cfgTools[i].InputSchema]],
     MCP |-> [i \in DOMAIN m.cfgMCP |->
                 [ServerLabel |-> m.cfgMCP[i].Name,
                  Headers |-> m[m.cfgMCP[i].HTTPHeaders],
                  AllowedTools |-> m[m.cfgMCP[i].AllowedTools]]]]

\* The constructor with WithTools(tools) and WithMCPTools(servers): each
\* option appends the elements of the caller's slice to a new slice.
NewGeneratorWithTools ==
    /\ snapPc = "new"
    /\ UNCHANGED outsideSnapshot
    /\ \E name \in {"x", "y"}, type \in {"object", "string"},
          token \in {"token_a", "token_b"}, list \in {<<"x">>, <<"x", "y">>} :
         LET tools == <<[Name |-> name, InputSchema |-> "schema"]>>
             servers == <<[Name |-> "srv", HTTPHeaders |-> "headers",
                           AllowedTools |-> "allowed"]>>
             m == [callerTools |-> tools, cfgTools |-> tools,
                   callerMCP |-> servers, cfgMCP |-> servers,
                   schema |-> type, headers |-> token, allowed |-> list]
         IN  /\ mem' = m
             /\ builtView' = Marshal(mapTools(m), m)
    /\ snapPc' = "built"
    /\ UNCHANGED <<params, requests, changes>>

\* The caller writes to one of the values it passed in: an element of one of
\* its slices, the schema map, the header map, or the allow-list.
CallerChange ==
    /\ snapPc \in {"built", "flying"}
    /\ changes < MaxChanges
    /\ changes' = changes + 1
    /\ UNCHANGED outsideSnapshot
    /\ \/ mem' = [mem EXCEPT !.callerTools[1].Name = "z"]
       \/ mem' = [mem EXCEPT !.callerMCP[1].Name = "other"]
       \/ mem' = [mem EXCEPT !.schema = "array"]
       \/ mem' = [mem EXCEPT !.headers = "token_c"]
       \/ mem' = [mem EXCEPT !.allowed[1] = "z"]
    /\ UNCHANGED <<snapPc, params, builtView, requests>>

\* Generate: buildInitialParams maps the tools of g.cfg and the first
\* request is sent.
GenerateBuild ==
    /\ snapPc = "built"
    /\ UNCHANGED outsideSnapshot
    /\ params' = mapTools(mem)
    /\ requests' = <<Marshal(mapTools(mem), mem)>>
    /\ snapPc' = "flying"
    /\ UNCHANGED <<mem, builtView, changes>>

\* A follow-up request of the same Generate carries initial.Tools again, or
\* Generate returns.
FollowUpRequest ==
    /\ snapPc = "flying"
    /\ UNCHANGED outsideSnapshot
    /\ \/ /\ Len(requests) < MaxSends
          /\ requests' = Append(requests, Marshal(params, mem))
          /\ UNCHANGED snapPc
       \/ /\ snapPc' = "returned"
          /\ UNCHANGED requests
    /\ UNCHANGED <<mem, params, builtView, changes>>

InitSnapshot ==
    /\ GenerateIdle
    /\ adapterAllowed = {}
    /\ AdapterFresh
    /\ CacheFresh
    /\ StoreFresh
    /\ StructFresh
    /\ OptionsFresh
    /\ SnapshotFresh

NextSnapshot ==
    \/ NewGeneratorWithTools
    \/ CallerChange
    \/ GenerateBuild
    \/ FollowUpRequest

SpecSnapshot == InitSnapshot /\ [][NextSnapshot]_vars

(***************************************************************************)
(* Properties of the tool loop.                                            *)
(***************************************************************************)

\* Every response received so far contained a call the flow can dispatch.
EveryResponseHandled == received >= 1 /\ allHandled

C2_ApiCallsIsToolRoundsPlusOne ==
    (pc = "done" /\ outcome = "ok")
    => Atoi(meta["api_calls"]) = Atoi(meta["tool_rounds"]) + 1

\* C3: a handler error does not end the call: the failed invocation gets a
\* tool output carrying the error payload under its call id.
C3_HandlerErrorBecomesToolOutput ==
    \A i \in DOMAIN invocations :
        invocations[i].err
        => /\ outcome # "err_handler"
           /\ \E j \in DOMAIN history :
                /\ IsOutput(history[j])
                /\ history[j].id = invocations[i].id
                /\ history[j].payload.body = "error"


\* C4: a tool call whose name resolves to no registered handler ends the
\* call with an error: no request follows it and Generate does not succeed.
C4_UnknownCallFailsRound ==
    unknownSeen => (pc # "request" /\ outcome # "ok")

\* A resubmission: a request sent after an earlier response was received.
Resubmits == requestCount' > requestCount /\ requestCount >= 1

\* The tool calls of the latest response.
ResponseCalls == extractFunctionCalls(response)

\* The tool outputs among the items of h that answer calls of the latest
\* response, in the order in which h holds them.
OutputsFor(h) ==
    LET answers(item) == /\ IsOutput(item)
                         /\ \E i \in DOMAIN ResponseCalls : ResponseCalls[i].id = item.id
    IN  SelectSeq(h, answers)

\* C5: every resubmission carries exactly one tool output for each tool call
\* of the preceding response, under the call's id.
C5_OneOutputPerCall ==
    [][Resubmits =>
          /\ Len(OutputsFor(sent')) = Len(ResponseCalls)
          /\ \A i \in DOMAIN ResponseCalls :
                \E j \in DOMAIN sent' : /\ IsOutput(sent'[j])
                                        /\ sent'[j].id = ResponseCalls[i].id]_vars

\* C6: the history of a resubmission is the history of the previous request,
\* then the items of the response to it, then the tool outputs of the round.
C6_HistoryExtendsPrefix ==
    [][Resubmits =>
          sent' = sent \o response \o
                  SelectSeq(SubSeq(sent', Len(sent) + 1, Len(sent')), IsOutput)]_vars

\* C7: the tool outputs of a round stand in the next request in the order
\* of the tool calls they answer.
C7_OutputsInCallOrder ==
    [][Resubmits =>
          LET outs == OutputsFor(sent')
              pos(id) == CHOOSE i \in DOMAIN ResponseCalls : ResponseCalls[i].id = id
          IN  \A i, j \in DOMAIN outs :
                 i < j => pos(outs[i].id) < pos(outs[j].id)]_vars

C7_Witness ==
    \E i, j \in DOMAIN sent :
        /\ i < j
        /\ IsOutput(sent[i]) /\ IsOutput(sent[j])
        /\ sent[i].id + 1 = sent[j].id

\* Two tools of a list carry the same name.
HasDuplicateName(tools) ==
    \E i, j \in DOMAIN tools : i < j /\ tools[i].name = tools[j].name

AssemblyErrors ==
    {"err_missing_handler", "err_duplicate", "err_discover", "err_connect",
     "err_schema", "err_client"}

\* C8: a combined tool list with two tools of the same name never reaches
\* the tool loop: tool assembly fails.
C8_DuplicateNamesRejected ==
    HasDuplicateName(combined)
    => /\ pc \notin {"request", "exec"}
       /\ pc = "done" => outcome \in AssemblyErrors

\* C9: every handler invocation routed to an MCP adapter finds the adapter
\* connected, every adapter is connected while the loop runs, and no
\* connection is open once Generate has returned.
C9_AdaptersLiveThenClosed ==
    /\ \A i \in DOMAIN invocations : invocations[i].live
    /\ pc \in {"request", "exec"}
       => \A k \in DOMAIN adapters :
             adapters[k].client # 0 /\ conns[adapters[k].client].open
    /\ pc = "done" => \A c \in DOMAIN conns : ~conns[c].open

C9_Witness ==
    /\ pc = "done"
    /\ outcome = "ok"
    /\ \E i \in DOMAIN invocations : invocations[i].src # 0
    /\ \E c \in DOMAIN conns : conns[c].closes = 1

\* C10: when tool assembly fails after adapters were connected, every
\* connection opened so far has been closed, exactly once, and no adapter
\* keeps a client.
C10_FailedAssemblyDisconnects ==
    (pc = "done" /\ outcome \in AssemblyErrors)
    => /\ \A c \in DOMAIN conns : ~conns[c].open /\ conns[c].closes = 1
       /\ \A k \in DOMAIN adapters : adapters[k].client = 0

C10_Witness ==
    /\ pc = "done"
    /\ outcome = "err_connect"
    /\ Len(adapters) >= 1
    /\ Len(conns) = Len(adapters) + 1

(***************************************************************************)
(* Properties of the MCP tool adapter.                                     *)
(***************************************************************************)

\* Caller t has returned from an ExecuteTool that reached CallTool.
ExecReturned(t) ==
    tpc[t] = "idle" /\ tloc[t].op = "execute" /\ tloc[t].outcome # ""

\* The payload {is_error: true, error: "<message>"}.
IsErrorPayload(p) ==
    DOMAIN p = {"is_error", "error"} /\ p.is_error /\ p.error # ""

\* C11 (as stated): a call that fails in transport, and a call on which the
\* tool reports an error, return no error and the payload
\* {is_error: true, error: message}.
C11_FailureIsErrorPayload ==
    \A t \in Threads :
        (ExecReturned(t) /\ tloc[t].outcome \in {"transport", "tool_error"})
        => tloc[t].err = "" /\ IsErrorPayload(tloc[t].payload)

\* C11 (amended): neither failure is returned as an error.  A call that
\* fails in transport, or returns no result, returns the payload
\* {is_error: true, error: message}; a call on which the tool reports an
\* error returns the server's result as on success, with is_error true:
\* {is_error: true, content, structured_content}.
C11_FailureIsPayload ==
    \A t \in Threads :
        ExecReturned(t) =>
          /\ tloc[t].err = ""
          /\ tloc[t].outcome \in {"transport", "nil_result"}
             => IsErrorPayload(tloc[t].payload)
          /\ tloc[t].outcome = "tool_error"
             => /\ DOMAIN tloc[t].payload = {"is_error", "content", "structured_content"}
                /\ tloc[t].payload.is_error
                /\ tloc[t].payload.content = "tool failed"

C11_Witness ==
    \E t, u \in Threads :
        /\ ExecReturned(t) /\ tloc[t].outcome = "transport"
        /\ ExecReturned(u) /\ tloc[u].outcome = "tool_error"

\* C12: the adapter's client handle and tool list change only in a step of
\* the caller that holds the exclusive lock, while no caller holds the
\* shared lock; ExecuteTool reads the client handle while it holds the
\* shared lock and no caller holds the exclusive one.  (The lock covers the
\* read of the handle; CallTool itself runs after RUnlock.)
C12_LockDiscipline ==
    [][/\ adapterMu.writer # 0 => adapterMu.readers = {}
       /\ (adapterClient' # adapterClient \/ adapterTools' # adapterTools)
          => /\ adapterMu.writer # 0
             /\ adapterMu.readers = {}
             /\ tpc[adapterMu.writer] \in {"connect_write", "refresh_write",
                                            "disconnect_close"}
             /\ tpc'[adapterMu.writer] = "idle"
       /\ \A t \in Threads :
             (tpc[t] = "exec_read" /\ tpc'[t] # "exec_read")
             => /\ t \in adapterMu.readers
                /\ adapterMu.writer = 0
                /\ tloc'[t].c = adapterClient]_vars

C12_Witness ==
    \E t, u \in Threads :
        /\ adapterMu.writer = t
        /\ tpc[t] = "disconnect_close"
        /\ adapterClient # 0
        /\ tpc[u] = "exec_call"
        /\ tloc[u].c = adapterClient

\* C13: the cache map is read only under a lock and written only under the
\* exclusive lock; the slice stored for a URL always holds the names the
\* server listed, and every call answered for that URL received exactly
\* these names in a backing array of its own, whatever callers did to the
\* lists they were handed earlier.
C13_CacheHandsOutCopies ==
    /\ cachedToolsMutex.writer # 0 => cachedToolsMutex.readers = {}
    /\ \A t \in Threads :
          /\ fpc[t] = "fetch_read" => t \in cachedToolsMutex.readers
          /\ fpc[t] = "fetch_locked" => cachedToolsMutex.writer = t
          /\ floc[t].ret # 0
             => /\ floc[t].got = served[floc[t].url].names
                /\ floc[t].ret # cachedToolsByURL[floc[t].url]
                /\ \A o \in Threads \ {t} : floc[o].ret # floc[t].ret
    /\ \A u \in URLs :
          cachedToolsByURL[u] # 0 => slices[cachedToolsByURL[u]] = served[u].names

C13_Witness ==
    \E t \in Threads :
        /\ fpc[t] = "idle"
        /\ floc[t].afterChange
        /\ floc[t].hit
        /\ floc[t].got = served[floc[t].url].names
        /\ \E o \in Threads \ {t} : floc[o].url = floc[t].url /\ floc[o].url \in floc[o].changed

\* Caller t has returned from Disconnect.
DisconnectReturned(t) == tpc[t] = "idle" /\ tloc[t].op = "disconnect"

\* C15: whenever a Disconnect returns, whatever the state it found, the
\* adapter has no client and no tools; a Disconnect that found no client
\* closes nothing and returns no error; and no transport is ever closed
\* more than once.
C15_DisconnectIdempotent ==
    [][/\ \A c \in DOMAIN transports' : transports'[c].closes <= 1
       /\ \A t \in Threads :
             (tpc[t] = "disconnect_close" /\ tpc'[t] = "idle")
             => /\ adapterClient' = 0
                /\ adapterTools' = <<>>
                /\ adapterClient # 0
                   => /\ ~transports'[adapterClient].open
                      /\ transports'[adapterClient].closes = 1
                /\ adapterClient = 0
                   => /\ transports' = transports
                      /\ tloc'[t].err = ""]_vars

C15_Witness ==
    \E t, u \in Threads :
        /\ t # u
        /\ DisconnectReturned(t) /\ tloc[t].c # 0
        /\ DisconnectReturned(u) /\ tloc[u].c = 0 /\ tloc[u].err = ""
        /\ transports[tloc[t].c].closes = 1
        /\ adapterClient = 0

(***************************************************************************)
(* Properties of the prompt-context store.                                 *)
(***************************************************************************)

\* s is an initial part of u.
IsPrefix(s, u) == Len(s) <= Len(u) /\ SubSeq(u, 1, Len(s)) = s

\* The ids of the entries of a list.
Ids(list) == {list[i].id : i \in DOMAIN list}

\* C14: both lists of the store only grow at their end, and only in a step
\* of the caller that holds the exclusive lock; every entry whose Add call
\* has returned is in the store exactly once; and the two lists a composing
\* caller copies are the two lists of the store at the moment it releases
\* the shared lock.
C14_StoreAppendOnlySnapshot ==
    [][/\ IsPrefix(promptContexts, promptContexts')
       /\ IsPrefix(promptContextProviders, promptContextProviders')
       /\ (promptContexts' # promptContexts
              \/ promptContextProviders' # promptContextProviders)
          => /\ promptContextMu.writer # 0
             /\ promptContextMu.readers = {}
             /\ spc'[promptContextMu.writer] = "idle"
       /\ \A id \in accepted' :
             Cardinality({i \in DOMAIN promptContexts' : promptContexts'[i].id = id})
             + Cardinality({i \in DOMAIN promptContextProviders' :
                               promptContextProviders'[i].id = id}) = 1
       /\ \A t \in Threads :
             (spc[t] = "copy_providers" /\ spc'[t] = "provide")
             => /\ sloc'[t].contexts = promptContexts
                /\ sloc'[t].providers = promptContextProviders]_vars

C14_Witness ==
    \E t, u \in Threads :
        /\ spc[t] = "provide"
        /\ Len(sloc[t].providers) >= 1
        /\ sloc[t].providers = promptContextProviders
        /\ spc[u] = "add_context"
        /\ promptContextMu.writer = u


(***************************************************************************)
(* Properties of the metadata returned with a failure.                     *)
(***************************************************************************)
\* The failures of the tool loop itself, each possible only after a provider
\* request was sent.
FlowFailures == {"err_provider", "err_handler", "err_no_handler", "err_limit"}

\* C16: when Generate fails after at least one provider response was
\* received, the metadata returned with the error carries what the run
\* accumulated so far: api_calls of at least 1 and the tool rounds completed.
C16_FailureKeepsTotals ==
    (pc = "done" /\ outcome \in FlowFailures /\ received >= 1)
    => /\ "api_calls" \in DOMAIN meta
       /\ Atoi(meta["api_calls"]) >= 1
       /\ "tool_rounds" \in DOMAIN meta
       /\ Atoi(meta["tool_rounds"]) = totals.ToolRounds

\* C17: when Generate fails because the tool-loop limit was exceeded, every
\* response having carried a tool call with a handler, the metadata returned
\* with the failure has tool_rounds equal to "12".
C17_LimitReportsTwelveRounds ==
    (pc = "done" /\ outcome = "err_limit" /\ EveryResponseHandled)
    => /\ "tool_rounds" \in DOMAIN meta
       /\ meta["tool_rounds"] = Itoa(maxToolRounds)

\* C18: every Generate result, on success and on every failure path, comes
\* with metadata in which provider, model and latency_ms are present and
\* non-empty, and latency_ms is the decimal form of a non-negative integer.
C18_BaseKeysAlwaysPresent ==
    pc = "done"
    => /\ {"provider", "model", "latency_ms"} \subseteq DOMAIN meta
       /\ meta["provider"] # ""
       /\ meta["model"] # ""
       /\ Len(meta["latency_ms"]) >= 1
       /\ \A i \in DOMAIN meta["latency_ms"] : meta["latency_ms"][i] \in 0..9
       /\ Atoi(meta["latency_ms"]) >= 0

(***************************************************************************)
(* Properties of cancellation.                                             *)
(***************************************************************************)
\* The suspension points entered since ctx was cancelled: provider requests
\* and handler invocations.
SuspensionsSinceCancel ==
    (requestCount - cancelled.requests) + (Len(invocations) - cancelled.invocations)

\* C19: after ctx is cancelled in the middle of the loop, the loop stops at
\* the next suspension point: at most one more provider request or handler
\* invocation is entered, no further response is received, and Generate
\* returns a failure.
C19_CancelStopsAtNextSuspension ==
    cancelled.on
    => /\ SuspensionsSinceCancel <= 1
       /\ received = cancelled.received
       /\ pc = "done" => outcome # "ok"

(***************************************************************************)
(* Properties of the structured-output repair.                             *)
(***************************************************************************)
\* C20: the repair round is single-shot: one Generate sends at most one
\* repair request, only after a parse failure, and when the repaired output
\* fails to parse as well, Generate fails without another repair attempt.
C20_RepairIsSingleShot ==
    /\ repairRequests <= 1
    /\ parseAttempts <= 2
    /\ repairRequests = 1
       => /\ parseAttempts >= 1
          /\ structPc = "done"
          /\ ~Unmarshals(extractJSONPayload(parsedText)) => structOutcome = "err_parse"
          /\ structOutcome = "ok" => /\ parseAttempts = 2
                                     /\ Unmarshals(extractJSONPayload(parsedText))

C20_Witness ==
    /\ structPc = "done"
    /\ structOutcome = "err_parse"
    /\ repairRequests = 1
    /\ parseAttempts = 2
    /\ ~Unmarshals(extractJSONPayload(parsedText))

\* C21: when a structured Generate succeeds only after a repair round, the
\* api_calls value of the returned metadata counts the repair request along
\* with the chat requests of the flow.
C21_ApiCallsCountRepair ==
    (structPc = "done" /\ structOutcome = "ok" /\ repairRequests >= 1)
    => /\ "api_calls" \in DOMAIN structMeta
       /\ Atoi(structMeta["api_calls"]) = flowCalls + repairRequests

(***************************************************************************)
(* Properties of option normalization.                                     *)
(***************************************************************************)
\* The options of cfg that do not fit the family of its model.
TemperatureUnfit(cfg) == cfg.Temperature.set /\ isReasoningModel(resolveModelName(cfg))
LevelUnfit(cfg) == cfg.ReasoningLevel.set /\ ~isReasoningModel(resolveModelName(cfg))

Normalized == optPc \in {"normalized", "renormalized"}

\* C22: with an option that does not fit the model family (temperature on a
\* reasoning model, reasoning level on any other model) normalization fails
\* when IgnoreInvalidGeneratorOptions is false; when it is true the result is
\* the config with exactly that option removed; a config whose options fit
\* passes through unchanged.
C22_NormalizerFailsOrDrops ==
    Normalized =>
      LET unfit == TemperatureUnfit(genCfg) \/ LevelUnfit(genCfg)
      IN  /\ (unfit /\ ~genCfg.IgnoreInvalidGeneratorOptions) => normOut.err # ""
          /\ (unfit /\ genCfg.IgnoreInvalidGeneratorOptions)
             => /\ normOut.err = ""
                /\ TemperatureUnfit(genCfg)
                   => normOut.cfg = [genCfg EXCEPT !.Temperature = Nil]
                /\ LevelUnfit(genCfg)
                   => normOut.cfg = [genCfg EXCEPT !.ReasoningLevel = Nil]
          /\ ~unfit => normOut = [cfg |-> genCfg, err |-> ""]

C22_Witness ==
    /\ Normalized
    /\ genCfg.IgnoreInvalidGeneratorOptions
    /\ TemperatureUnfit(genCfg)
    /\ genCfg.MaxTokens.set
    /\ normOut.cfg.MaxTokens.set
    /\ ~normOut.cfg.Temperature.set

\* C23: a generator whose construction succeeded holds no option that does
\* not fit its model family: such an option has been stripped or has made
\* the construction fail.
C23_BuiltGeneratorHoldsNoUnfitOption ==
    (optPc \notin {"new", "failed"} /\ genErr = "")
    => ~TemperatureUnfit(genCfg) /\ ~LevelUnfit(genCfg)

\* C24: with IgnoreInvalidGeneratorOptions true, normalizing the output of
\* the normalizer gives that output again.
C24_NormalizerIdempotent ==
    (optPc = "renormalized" /\ genCfg.IgnoreInvalidGeneratorOptions)
    => normAgain = normOut

C24_Witness ==
    /\ optPc = "renormalized"
    /\ genCfg.IgnoreInvalidGeneratorOptions
    /\ LevelUnfit(genCfg)
    /\ genCfg.ReasoningLevel.v = "high"
    /\ normAgain = normOut
    /\ normOut.cfg # genCfg

(***************************************************************************)
(* Properties of the option snapshot.                                      *)
(***************************************************************************)
\* C25: every request of a Generate carries the tools, schemas, MCP
\* descriptors and headers that were passed to the constructor, whatever the
\* caller wrote to its own values after construction.
C25_RequestsUseConstructionValues ==
    \A i \in DOMAIN requests : requests[i] = builtView

\* The part of C25 that holds: writes to the elements of the caller's own
\* slices never reach a request.
C25_SliceWritesStayWithCaller ==
    (mem.schema # "array" /\ mem.headers # "token_c" /\ "z" \notin Range(mem.allowed))
    => \A i \in DOMAIN requests : requests[i] = builtView

(***************************************************************************)
(* Properties of the composed input.                                       *)
(***************************************************************************)
\* The callers whose Generate has finished composing, with or without error.
Composed(t) == spc[t] = "idle" /\ sloc[t].op = "compose"

\* The position of the entry with this id in a list of the store, 0 if none.
PositionOf(list, id) ==
    IF \E i \in DOMAIN list : list[i].id = id
    THEN CHOOSE i \in DOMAIN list : list[i].id = id
    ELSE 0

\* C26: when a prompt-context provider has returned an error, Generate
\* returns that error and the request flow is never started: no input is
\* handed to the LLM provider.
C26_ProviderErrorAbortsGenerate ==
    \A t \in Threads :
        (Composed(t) /\ sloc[t].failed)
        => /\ sloc[t].err = "err_context_provider"
           /\ ~sloc[t].flowStarted
           /\ sloc[t].items = <<>>

C26_Witness ==
    \E t \in Threads :
        /\ Composed(t)
        /\ sloc[t].failed
        /\ sloc[t].err = "err_context_provider"
        /\ Len(promptContextProviders) = 2

\* C27: in the composed input the messages of the static entries come
\* first, in the order of the store; the messages of the provider entries
\* follow, in the order in which the providers were registered.
C27_StaticThenProvidersInOrder ==
    \A t \in Threads :
        (Composed(t) /\ sloc[t].err = "")
        => \A i, j \in DOMAIN sloc[t].items :
              LET a == sloc[t].items[i].id
                  b == sloc[t].items[j].id
                  sa == PositionOf(promptContexts, a)
                  sb == PositionOf(promptContexts, b)
                  pa == PositionOf(promptContextProviders, a)
                  pb == PositionOf(promptContextProviders, b)
              IN  (i < j /\ a # 0 /\ b # 0)
                  => /\ sa + pa > 0 /\ sb + pb > 0
                     /\ (sa > 0 /\ sb > 0) => sa < sb
                     /\ (pa > 0 /\ pb > 0) => pa <= pb
                     /\ ~(pa > 0 /\ sb > 0)

C27_Witness ==
    \E t \in Threads :
        /\ Composed(t)
        /\ sloc[t].err = ""
        /\ Len(sloc[t].items) >= 3
        /\ PositionOf(promptContexts, sloc[t].items[1].id) > 0
        /\ PositionOf(promptContextProviders, sloc[t].items[2].id) > 0

\* C28: the last message of the input handed to the request flow is the
\* prompt of the generator, in the user role, and every message before it
\* stems from a context entry.
C28_PromptIsLastUserMessage ==
    \A t \in Threads :
        (Composed(t) /\ sloc[t].flowStarted)
        => LET items == sloc[t].items
           IN  /\ items # <<>>
               /\ items[Len(items)] = [role |-> "user", content |-> "prompt", id |-> 0]
               /\ \A i \in 1..(Len(items) - 1) : items[i].id # 0

\* The part of C28 that holds: the text generator composes the contexts and
\* then the prompt.
C28_TextPromptIsLast ==
    \A t \in Threads :
        (Composed(t) /\ sloc[t].flowStarted /\ sloc[t].generator = "openai_response_text")
        => LET items == sloc[t].items
           IN  /\ items # <<>>
               /\ items[Len(items)] = [role |-> "user", content |-> "prompt", id |-> 0]
               /\ \A i \in 1..(Len(items) - 1) : items[i].id # 0

(***************************************************************************)
(* Properties of the tool outputs and of the handler lookup.               *)
(***************************************************************************)
\* Encodings under which the content of a tool-output record is the JSON
\* encoding of the handler result itself: the JSON text in a string field
\* (anthropic writes that string as a raw JSON string literal) or the JSON
\* document (bedrock).
PlainEncodings == {"json", "json-in-json-string", "json-document"}

\* C29: the tool-output record of a handler that returned V holds exactly the
\* JSON encoding of V, with nothing wrapped around it.
C29_ToolOutputIsPlainJSON ==
    \A i \in DOMAIN history :
        (IsOutput(history[i]) /\ history[i].payload.body = "V")
        => history[i].payload.wrap \in PlainEncodings

\* The part of C29 that holds: every provider but gemini records the plain
\* encoding.
C29_PlainOutsideGemini ==
    provider # "gemini"
    => \A i \in DOMAIN history :
          (IsOutput(history[i]) /\ history[i].payload.body = "V")
          => history[i].payload.wrap \in PlainEncodings

\* The step of the tool loop that handles the current call.
HandlesCall == pc = "exec" /\ (pc' # pc \/ callIdx' # callIdx)

\* C30: a call named tool.X, function.X or functions.X, with a handler
\* registered as X and none under the prefixed name, invokes the handler X.
C30_PrefixedCallReachesHandler ==
    [][\A prefix \in {"tool.", "function.", "functions."} :
          (/\ HandlesCall
           /\ TrimPrefix(calls[callIdx].name, prefix) # calls[callIdx].name
           /\ TrimPrefix(calls[callIdx].name, prefix) \in DOMAIN handlers
           /\ calls[callIdx].name \notin DOMAIN handlers)
          => /\ Len(invocations') = Len(invocations) + 1
             /\ invocations'[Len(invocations')].name
                  = TrimPrefix(calls[callIdx].name, prefix)]_vars

\* The part of C30 that holds: ollama resolves the prefixed name.
C30_OllamaStripsPrefix ==
    [][\A prefix \in {"tool.", "function.", "functions."} :
          (/\ HandlesCall
           /\ provider = "ollama"
           /\ TrimPrefix(calls[callIdx].name, prefix) # calls[callIdx].name
           /\ TrimPrefix(calls[callIdx].name, prefix) \in DOMAIN handlers
           /\ calls[callIdx].name \notin DOMAIN handlers)
          => /\ Len(invocations') = Len(invocations) + 1
             /\ invocations'[Len(invocations')].name
                  = TrimPrefix(calls[callIdx].name, prefix)]_vars

(***************************************************************************)
(* Properties of the allow-list of an adapter.                             *)
(***************************************************************************)
\* The step in which caller t stores the filtered tool list.
StoresTools(t) == tpc[t] \in {"connect_write", "refresh_write"} /\ tpc'[t] # tpc[t]

\* What an adapter built from the AllowedTools list `names` has to expose of
\* the advertised list: with no list everything, otherwise the tools whose
\* name equals an entry.
Exposed(names, listed) ==
    IF names = <<>> THEN listed ELSE SelectSeq(listed, LAMBDA n : n \in Range(names))

\* C31: whatever AllowedTools list the adapter was built from, the tool list
\* it stores is the advertised list filtered by exact match with the entries
\* of that list, and the whole advertised list when there is no list.
C31_AllowListExactMatch ==
    [][\A t \in Threads : \A names \in AllowedToolsInputs :
          (StoresTools(t) /\ normalizeAllowedTools(names) = adapterAllowed)
          => adapterTools' = Exposed(names, tloc[t].listed)]_vars

\* The part of C31 that holds: lists without blank or padded entries.
C31_ExactForPlainLists ==
    [][\A t \in Threads : \A names \in {<<>>, <<"b">>} :
          (StoresTools(t) /\ normalizeAllowedTools(names) = adapterAllowed)
          => adapterTools' = Exposed(names, tloc[t].listed)]_vars

(***************************************************************************)
(* Properties of the number of provider requests.                          *)
(***************************************************************************)
\* C32: one Generate call sends at most maxToolRounds provider requests.
C32_AtMostTwelveRequests == requestCount <= maxToolRounds

\* The part of C32 that holds: the flows that send their request at the top
\* of the loop body stay within the limit.
C32_LoopTopRequestsWithinLimit ==
    ~RequestBeforeLoop(provider) => requestCount <= maxToolRounds

\* What the other two flows reach: one request before the loop and one at
\* the end of each of the twelve rounds, and for gemini one retry more.
C32_RequestsWithinThirteen ==
    requestCount <= maxToolRounds + (IF provider = "gemini" THEN 2 ELSE 1)

(***************************************************************************)
(* Properties of the thinking fallback of gemini.                          *)
(***************************************************************************)
\* C39: in the gemini flow one step sends a request and at most one retry of
\* it; and when the model does not support the thinking level, every request
\* after the first one is sent once and without the thinking setting.
C39_ThinkingFallbackOnce ==
    [][provider = "gemini"
       => /\ requestCount' <= requestCount + 2
          /\ (requestCount >= 1 /\ ~thinkingSupported /\ requestCount' > requestCount)
             => (~thinking /\ requestCount' = requestCount + 1)]_vars

C39_Witness ==
    /\ provider = "gemini"
    /\ ~thinkingSupported
    /\ ~thinking
    /\ received >= 2
    /\ requestCount = received + 1

(***************************************************************************)
(* Properties that compare the tool loops of the providers.                *)
(***************************************************************************)
\* A finished Generate whose flow received exactly one response.
OneResponse == pc = "done" /\ received = 1 /\ ~cancelled.on

\* What openai_response gives for two scripts of one response: a response
\* without tool calls is the successful result; a response whose only call
\* names a tool nobody registered ends the call with the no-handler error
\* in round 1, with no handler invoked.
SameAsOpenAI ==
    OneResponse
    => LET found == extractFunctionCalls(response)
       IN  /\ found = <<>>
              => (outcome = "ok" /\ invocations = <<>> /\ totals.ToolRounds = 0)
           /\ (Len(found) = 1 /\ found[1].name = "z")
              => (outcome = "err_no_handler" /\ invocations = <<>>
                  /\ totals.ToolRounds = 1)

\* C33: for the same script of responses and the same tools every provider
\* gives the same outcome, handler invocations and tool_rounds; so every
\* provider gives what openai_response gives for the two scripts above.
C33_ProvidersAgree == SameAsOpenAI

\* The reference of C33: openai_response itself.
C33_OpenAIReference == provider = "openai" => SameAsOpenAI

(***************************************************************************)
(* Properties of the adapter under concurrent callers.                     *)
(***************************************************************************)
\* C34: while an ExecuteTool call is about to call the server through the
\* client handle it read, that client has not been closed.
C34_NoCallOnClosedClient ==
    \A t \in Threads : tpc[t] = "exec_call" => transports[tloc[t].c].open

\* What the lock does give: the handle was the adapter's client, and open,
\* when ExecuteTool read it.
C34_HandleOpenWhenRead ==
    [][\A t \in Threads :
          (tpc[t] = "exec_read" /\ tpc'[t] = "exec_call")
          => /\ tloc'[t].c = adapterClient
             /\ transports[adapterClient].open]_vars

\* C35: an adapter without a client has an empty tool list.
C35_DisconnectedHasNoTools == adapterClient = 0 => adapterTools = <<>>

(***************************************************************************)
(* Properties of the discovery cache under concurrent callers.             *)
(***************************************************************************)
\* Caller t returns from the section of FetchListOfTools that holds the
\* exclusive lock.
LeavesLocked(t) == fpc[t] = "fetch_locked" /\ fpc'[t] = "idle"

\* C36: the server is asked for the tools of a URL only by a caller that
\* holds the exclusive lock and finds no entry for the URL; a failed
\* discovery leaves the URL without entry; a successful one fills it; and
\* an entry, once filled, is never discovered again.
C36_OneDiscoveryPerFill ==
    [][/\ \A t \in Threads :
             LeavesLocked(t) =>
               LET u == floc[t].url
               IN  /\ floc'[t].err = "err_fetch"
                      => (cachedToolsByURL[u] = 0 /\ cachedToolsByURL'[u] = 0)
                   /\ (floc'[t].err = "" /\ cachedToolsByURL[u] = 0)
                      => (cachedToolsByURL'[u] # 0 /\ served'[u].names = floc'[t].got)
       /\ \A u \in URLs :
             cachedToolsByURL[u] # 0
             => (cachedToolsByURL'[u] = cachedToolsByURL[u] /\ served'[u] = served[u])
       /\ \A u \in URLs :
             served'[u] # served[u]
             => \E t \in Threads : LeavesLocked(t) /\ floc[t].url = u]_vars

C36_Witness ==
    \E t, o \in Threads :
        /\ t # o
        /\ fpc[t] = "idle" /\ floc[t].err = "err_fetch"
        /\ fpc[o] = "idle" /\ floc[o].url = floc[t].url
        /\ floc[o].ret # 0 /\ ~floc[o].hit
        /\ cachedToolsByURL[floc[t].url] # 0

\* C37: while one caller is discovering the tools of a URL that has no
\* entry, the shared lock a call for a cached URL needs can be taken.
C37_DiscoveryDoesNotBlockHits ==
    \A t \in Threads :
        (/\ fpc[t] = "fetch_locked"
         /\ cachedToolsByURL[floc[t].url] = 0
         /\ \E v \in URLs : cachedToolsByURL[v] # 0)
        => CanRLock(cachedToolsMutex)

\* C38: a caller that is handed a tool list supplied the token the list was
\* discovered with.
C38_ListMatchesCallerToken ==
    [][\A t \in Threads :
          (fpc[t] \in {"fetch_hit", "fetch_locked"} /\ fpc'[t] = "idle"
           /\ floc'[t].ret # 0)
          => served'[floc[t].url].auth = floc[t].auth]_vars

\* The part of C38 that holds: the caller whose request discovered the list.
C38_DiscovererGetsOwnList ==
    [][\A t \in Threads :
          (LeavesLocked(t) /\ floc'[t].ret # 0 /\ ~floc'[t].hit)
          => served'[floc[t].url].auth = floc[t].auth]_vars

====
